---- MODULE Spec2Model ----
(***************************************************************************)
(* Model of the markdown merge pipeline of bigdra50/doc: directory scan,   *)
(* header extraction and rewriting, table of contents and body merge.      *)
(*                                                                         *)
(* A Go string is a sequence of one-character strings; a character that    *)
(* has no such string in TLA+ is written by its code point ("U+00A0").     *)
(* The time stamp of the metadata block is the one element "NOW".          *)
(***************************************************************************)
EXTENDS Integers, Sequences, FiniteSets, TLC

VARIABLES
    hIn,      \* header functions: the content passed in
    hArg,     \* header functions: baseLevel or maxDepth of the call
    hOut,     \* header functions: the value returned
    hAgain,   \* header functions: hOut rewritten again with the same baseLevel
    hOp,      \* header functions: "none", "adjust", "adjusted twice" or "extract"
    sFs,      \* scanner: the file system scanned
    scanner,  \* scanner: the FileScanner
    sRes,     \* scanner: [err, files] returned by ScanMarkdownFiles
    sOp,      \* scanner: "none" or "scanned"
    args,     \* merge: the CLIArgs of the merge command
    disk,     \* merge: the file system below MergeDirectory
    sortedFiles, \* merge: sortedFiles of runMerge
    output,   \* merge: the writes that make up the output file, in order
    outExists,\* merge: whether the output file exists
    tocRead,  \* merge: the indices of the files writeTOC could read
    idx,      \* merge: index of the file the current loop is at
    stdout,   \* merge: what the dry run printed
    err,      \* merge: the error runMerge returns, "" if none
    pc,       \* merge: where runMerge is
    terminal, \* merge: whether stderr is a terminal (isTerminal)
    spinnerLog, \* merge: the lines the spinners of mergeFiles wrote to stderr
    run,      \* merge: 1 in the first run of the command, 2 when it is run again
    firstOutput, \* merge: the output file as the first run left it
    srtIn,    \* sort: the files passed to SortMarkdownFiles
    srtOrder, \* sort: the order passed to SortMarkdownFiles
    srtOut,   \* sort: the list returned
    srtAgain, \* sort: the list returned when srtOut is sorted again
    srtOp,    \* sort: "none", "sorted" or "resorted"
    osArgs,   \* main: os.Args[1:]
    cliArgs,  \* main: the CLIArgs parseArgs returned, NilArgs if none
    parseErr, \* main: the error parseArgs returned, "" if none
    ran,      \* main: the functions main has called, in order
    exitCode, \* main: the exit status, -1 while the process runs
    mainPc,   \* main: where main is
    stdin,    \* main: what readDocument found on standard input
    tIn,      \* text functions: the string passed
    tOut,     \* text functions: the string returned
    tAgain,   \* text functions: the string returned when tOut is passed again
    tOp,      \* text functions: "none", "link", "linked twice", "title" or "mask"
    kFiles,   \* config: the config files there are, <<path, Config>> each
    kFiles0,  \* config: kFiles when the process started
    kDotEnv,  \* config: .env, [exists, lines]
    kEnv,     \* config: the environment of the process
    kEnv0,    \* config: kEnv when the process started
    kCfg,     \* config: the Config returned by Load
    kPairs,   \* config: the key=value arguments of --set
    kExit,    \* config: the exit status, -1 while the process runs
    kOp,      \* config: "none", "loaded" or "set"
    spinning, \* ui: the number of spinner goroutines that are running
    peak      \* ui: the most spinner goroutines that ran at the same time

hvars == <<hIn, hArg, hOut, hAgain, hOp>>
svars == <<sFs, scanner, sRes, sOp>>
mvars == <<args, disk, sortedFiles, output, outExists, tocRead, idx, stdout, err, pc,
           terminal, spinnerLog, run, firstOutput>>
cvars == <<osArgs, cliArgs, parseErr, ran, exitCode, mainPc, stdin>>
qvars == <<srtIn, srtOrder, srtOut, srtAgain, srtOp>>
tvars == <<tIn, tOut, tAgain, tOp>>
gvars == <<spinning, peak>>
kvars == <<kFiles, kFiles0, kDotEnv, kEnv, kEnv0, kCfg, kPairs, kExit, kOp>>
vars == <<hIn, hArg, hOut, hAgain, hOp, sFs, scanner, sRes, sOp,
          args, disk, sortedFiles, output, outExists, tocRead, idx, stdout, err, pc,
          terminal, spinnerLog, run, firstOutput,
          srtIn, srtOrder, srtOut, srtAgain, srtOp,
          osArgs, cliArgs, parseErr, ran, exitCode, mainPc, stdin,
          tIn, tOut, tAgain, tOp,
          kFiles, kFiles0, kDotEnv, kEnv, kEnv0, kCfg, kPairs, kExit, kOp,
          spinning, peak>>

(***************************************************************************)
(* Bounds of the model.                                                    *)
(***************************************************************************)
MaxLen == 4        \* longest content enumerated character by character
MaxHashes == 7     \* longest '#' run of a generated header line
MaxLines == 2      \* most lines of a content built from SampleLines
MaxPatterns == 2   \* most include patterns and most exclude patterns
MaxFiles == 3      \* longest list passed to SortMarkdownFiles
MaxArgs == 3       \* most arguments after "merge"
MaxText == 4       \* longest text enumerated character by character
MaxPairs == 2      \* most key=value arguments of --set

(***************************************************************************)
(* Program constants.                                                      *)
(***************************************************************************)
MaxHeaderLevel == 6
MinOption == 1
MaxOption == 6
MaskMinLen == 8
MaskShown == 4

(***************************************************************************)
(* strings package.                                                        *)
(***************************************************************************)
NL == "\n"
TAB == "\t"

\* White space of unicode.IsSpace that has no escape here: vertical tab,
\* next line and no-break space; "\f" is the form feed.
VT == "U+000B"
NEL == "U+0085"
NBSP == "U+00A0"

\* The white space above U+00FF: U+1680, U+2000 to U+200A, U+2028, U+2029,
\* U+202F, U+205F and U+3000, each with its UTF-8 encoding.
WideSpaces ==
    <<<<"U+1680", <<"0xE1", "0x9A", "0x80">>>>,
      <<"U+2000", <<"0xE2", "0x80", "0x80">>>>,
      <<"U+2001", <<"0xE2", "0x80", "0x81">>>>,
      <<"U+2002", <<"0xE2", "0x80", "0x82">>>>,
      <<"U+2003", <<"0xE2", "0x80", "0x83">>>>,
      <<"U+2004", <<"0xE2", "0x80", "0x84">>>>,
      <<"U+2005", <<"0xE2", "0x80", "0x85">>>>,
      <<"U+2006", <<"0xE2", "0x80", "0x86">>>>,
      <<"U+2007", <<"0xE2", "0x80", "0x87">>>>,
      <<"U+2008", <<"0xE2", "0x80", "0x88">>>>,
      <<"U+2009", <<"0xE2", "0x80", "0x89">>>>,
      <<"U+200A", <<"0xE2", "0x80", "0x8A">>>>,
      <<"U+2028", <<"0xE2", "0x80", "0xA8">>>>,
      <<"U+2029", <<"0xE2", "0x80", "0xA9">>>>,
      <<"U+202F", <<"0xE2", "0x80", "0xAF">>>>,
      <<"U+205F", <<"0xE2", "0x81", "0x9F">>>>,
      <<"U+3000", <<"0xE3", "0x80", "0x80">>>>>>

IsWideSpace(c) == \E i \in 1..Len(WideSpaces) : WideSpaces[i][1] = c

\* unicode.IsSpace, as strings.TrimSpace and strings.Fields use it.
IsSpace(c) ==
    \/ c \in {" ", "\t", "\n", VT, "\f", "\r", NEL, NBSP}
    \/ IsWideSpace(c)

\* A character outside ASCII and its UTF-8 encoding; U+FFFD is what
\* strings.ToUpper and strings.ToLower write for a byte that is not UTF-8.
Kana == "U+30C9"
KanaBytes == <<"0xE3", "0x83", "0x89">>
RuneError == "U+FFFD"

\* The UTF-8 encoding of a character.
Utf8Bytes(c) ==
    CASE c = Kana -> KanaBytes
      [] c = RuneError -> <<"0xEF", "0xBF", "0xBD">>
      [] c = NEL -> <<"0xC2", "0x85">>
      [] c = NBSP -> <<"0xC2", "0xA0">>
      [] IsWideSpace(c) ->
            WideSpaces[CHOOSE i \in 1..Len(WideSpaces) : WideSpaces[i][1] = c][2]
      [] OTHER -> <<c>>

Utf8Width(c) == Len(Utf8Bytes(c))

\* The bytes of a string.
RECURSIVE Utf8(_)
Utf8(s) == IF s = <<>> THEN <<>> ELSE Utf8Bytes(Head(s)) \o Utf8(Tail(s))

RECURSIVE TrimLeft(_)
TrimLeft(s) ==
    IF s # <<>> /\ IsSpace(Head(s)) THEN TrimLeft(Tail(s)) ELSE s

RECURSIVE TrimRight(_)
TrimRight(s) ==
    IF s # <<>> /\ IsSpace(s[Len(s)])
    THEN TrimRight(SubSeq(s, 1, Len(s) - 1))
    ELSE s

TrimSpace(s) == TrimRight(TrimLeft(s))

HasPrefix(s, p) == Len(s) >= Len(p) /\ SubSeq(s, 1, Len(p)) = p

HasSuffix(s, p) ==
    Len(s) >= Len(p) /\ SubSeq(s, Len(s) - Len(p) + 1, Len(s)) = p

\* strings.Repeat(s, count) for count >= 0.
RECURSIVE Repeat(_, _)
Repeat(s, count) == IF count = 0 THEN <<>> ELSE s \o Repeat(s, count - 1)

\* strings.Repeat panics ("negative Repeat count") when count < 0.
RepeatPanics(count) == count < 0

\* strings.Split(s, "\n"): the pieces between the newlines, always at
\* least one.
Split(s) ==
    LET nls == {i \in 1..Len(s) : s[i] = NL}
        nl(k) == CHOOSE i \in nls : Cardinality({j \in nls : j < i}) = k - 1
        first(k) == IF k = 1 THEN 1 ELSE nl(k - 1) + 1
        last(k) == IF k = Cardinality(nls) + 1 THEN Len(s) ELSE nl(k) - 1
    IN  [k \in 1..(Cardinality(nls) + 1) |-> SubSeq(s, first(k), last(k))]

RECURSIVE Join(_)
Join(lines) ==
    IF lines = <<>> THEN <<>>
    ELSE IF Len(lines) = 1 THEN lines[1]
    ELSE lines[1] \o <<NL>> \o Join(Tail(lines))

(***************************************************************************)
(* merge.go: header extraction and rewriting.                              *)
(***************************************************************************)
\* "for _, char := range line { if char == '#' { level++ } else { break } }"
RECURSIVE CountHashes(_)
\* The count without its loop: the first character only.
CountHashesFirst(line) == IF line # <<>> /\ Head(line) = "#" THEN 1 ELSE 0

CountHashes(line) ==
    IF line # <<>> /\ Head(line) = "#" THEN 1 + CountHashes(Tail(line)) ELSE 0

\* One iteration of the loop of extractHeaders: the headers the line adds.
\* The entry is appended in the else branch only, that is when a character
\* other than '#' ends the run.
ExtractLine(rawLine, maxDepth) ==
    LET line == TrimSpace(rawLine)
        level == CountHashes(line)
    IN  IF HasPrefix(line, <<"#">>)
            /\ level < Len(line)
            /\ level > 0 /\ level <= maxDepth
        THEN <<[Level |-> level,
                Text |-> TrimSpace(SubSeq(line, level + 1, Len(line)))]>>
        ELSE <<>>

RECURSIVE ExtractLines(_, _)
ExtractLines(lines, maxDepth) ==
    IF lines = <<>> THEN <<>>
    ELSE ExtractLine(Head(lines), maxDepth) \o ExtractLines(Tail(lines), maxDepth)

extractHeaders(content, maxDepth) == ExtractLines(Split(content), maxDepth)

ClampLevelOff(newLevel) == newLevel

ClampLevel(newLevel) ==
    IF newLevel > MaxHeaderLevel THEN MaxHeaderLevel ELSE newLevel

\* One iteration of the loop of adjustHeaderLevels.  The prefix test is on
\* the trimmed line, the count of '#' on the line as it is.
AdjustLine(line, baseLevel) ==
    IF HasPrefix(TrimSpace(line), <<"#">>)
    THEN LET level == CountHashes(line)
         IN  IF level > 0
             THEN Repeat(<<"#">>, ClampLevel(baseLevel + level - 1))
                    \o <<" ">>
                    \o TrimSpace(SubSeq(line, level + 1, Len(line)))
             ELSE line
    ELSE line

adjustHeaderLevels(content, baseLevel) ==
    LET lines == Split(content)
    IN  Join([i \in 1..Len(lines) |-> AdjustLine(lines[i], baseLevel)])

(***************************************************************************)
(* Characters of file names and patterns, in ascending byte order, and the *)
(* upper-case letters with their lower-case forms.                         *)
(***************************************************************************)
ByteOrder ==
    <<"*", "-", ".", "/", "0", "1", "2", "3", "4", "5", "6", "7", "8", "9", "?",
      "A", "B", "C", "D", "E", "F", "G", "H", "I", "J", "K", "L", "M",
      "N", "O", "P", "Q", "R", "S", "T", "U", "V", "W", "X", "Y", "Z",
      "[", "\\", "]", "^", "_",
      "a", "b", "c", "d", "e", "f", "g", "h", "i", "j", "k", "l", "m",
      "n", "o", "p", "q", "r", "s", "t", "u", "v", "w", "x", "y", "z">>

Ord(c) == CHOOSE i \in 1..Len(ByteOrder) : ByteOrder[i] = c

UpperCase ==
    <<"A", "B", "C", "D", "E", "F", "G", "H", "I", "J", "K", "L", "M",
      "N", "O", "P", "Q", "R", "S", "T", "U", "V", "W", "X", "Y", "Z">>
LowerCase ==
    <<"a", "b", "c", "d", "e", "f", "g", "h", "i", "j", "k", "l", "m",
      "n", "o", "p", "q", "r", "s", "t", "u", "v", "w", "x", "y", "z">>
Digits == <<"0", "1", "2", "3", "4", "5", "6", "7", "8", "9">>

ToLowerChar(c) ==
    IF \E i \in 1..Len(UpperCase) : UpperCase[i] = c
    THEN LowerCase[CHOOSE i \in 1..Len(UpperCase) : UpperCase[i] = c]
    ELSE c

ToLower(s) == [i \in 1..Len(s) |-> ToLowerChar(s[i])]

ToUpperChar(c) ==
    IF \E i \in 1..Len(LowerCase) : LowerCase[i] = c
    THEN UpperCase[CHOOSE i \in 1..Len(LowerCase) : LowerCase[i] = c]
    ELSE c

ToUpper(s) == [i \in 1..Len(s) |-> ToUpperChar(s[i])]

\* a < b on Go strings: byte by byte, a proper prefix first.
RECURSIVE LessStr(_, _)
LessStr(a, b) ==
    IF b = <<>> THEN FALSE
    ELSE IF a = <<>> THEN TRUE
    ELSE IF Head(a) = Head(b) THEN LessStr(Tail(a), Tail(b))
    ELSE Ord(Head(a)) < Ord(Head(b))

(***************************************************************************)
(* path/filepath.Match, as matchPattern uses it on a base name: '*' any    *)
(* run of characters, '?' one character, '[...]' a class with ranges and   *)
(* '^' negation, '\' an escape.  A malformed pattern is ErrBadPattern.     *)
(***************************************************************************)
BadEsc == [bad |-> TRUE, r |-> "", rest |-> <<>>]

getEsc(chunk) ==
    IF chunk = <<>> \/ Head(chunk) \in {"-", "]"} THEN BadEsc
    ELSE LET c == IF Head(chunk) = "\\" THEN Tail(chunk) ELSE chunk
         IN  IF c = <<>> \/ Tail(c) = <<>> THEN BadEsc
             ELSE [bad |-> FALSE, r |-> Head(c), rest |-> Tail(c)]

BadClass == [bad |-> TRUE, ranges |-> <<>>, rest |-> <<>>]

\* The "parse all ranges" loop of matchChunk.
RECURSIVE ClassRanges(_, _)
ClassRanges(chunk, acc) ==
    IF chunk # <<>> /\ Head(chunk) = "]" /\ acc # <<>>
    THEN [bad |-> FALSE, ranges |-> acc, rest |-> Tail(chunk)]
    ELSE LET lo == getEsc(chunk)
         IN  IF lo.bad THEN BadClass
             ELSE IF Head(lo.rest) = "-"
             THEN LET hi == getEsc(Tail(lo.rest))
                  IN  IF hi.bad THEN BadClass
                      ELSE ClassRanges(hi.rest, Append(acc, <<lo.r, hi.r>>))
             ELSE ClassRanges(lo.rest, Append(acc, <<lo.r, lo.r>>))

\* The class that starts after the '[' of p.
ClassOf(p) ==
    LET negated == Len(p) > 1 /\ p[2] = "^"
        body == IF negated THEN SubSeq(p, 3, Len(p)) ELSE Tail(p)
        cr == ClassRanges(body, <<>>)
    IN  [bad |-> cr.bad, negated |-> negated, ranges |-> cr.ranges, rest |-> cr.rest]

InClass(cl, c) ==
    LET match == \E i \in 1..Len(cl.ranges) :
                    Ord(cl.ranges[i][1]) <= Ord(c) /\ Ord(c) <= Ord(cl.ranges[i][2])
    IN  match # cl.negated

RECURSIVE BadPattern(_)
BadPattern(p) ==
    IF p = <<>> THEN FALSE
    ELSE IF Head(p) = "\\" THEN Len(p) = 1 \/ BadPattern(SubSeq(p, 3, Len(p)))
    ELSE IF Head(p) = "[" THEN ClassOf(p).bad \/ BadPattern(ClassOf(p).rest)
    ELSE BadPattern(Tail(p))

RECURSIVE Match(_, _)
Match(p, name) ==
    IF p = <<>> THEN name = <<>>
    ELSE IF Head(p) = "*"
    THEN \E k \in 0..Len(name) : Match(Tail(p), SubSeq(name, k + 1, Len(name)))
    ELSE IF name = <<>> THEN FALSE
    ELSE IF Head(p) = "?" THEN Match(Tail(p), Tail(name))
    ELSE IF Head(p) = "["
    THEN InClass(ClassOf(p), Head(name)) /\ Match(ClassOf(p).rest, Tail(name))
    ELSE IF Head(p) = "\\"
    THEN p[2] = Head(name) /\ Match(SubSeq(p, 3, Len(p)), Tail(name))
    ELSE Head(p) = Head(name) /\ Match(Tail(p), Tail(name))

\* matchPattern: an error of filepath.Match is a non-match.
matchPatternAnyOnError(filename, pattern) ==
    IF BadPattern(pattern) THEN TRUE ELSE Match(pattern, filename)

matchPattern(filename, pattern) ==
    IF BadPattern(pattern) THEN FALSE ELSE Match(pattern, filename)

(***************************************************************************)
(* FileScanner.ScanMarkdownFiles.  A file system is                        *)
(*   [exists, dirs, unreadable, files]: whether the root exists, the       *)
(* directories below it (a path is the sequence of names from the root,    *)
(* the root being <<>>), those that cannot be listed, and the regular      *)
(* files [dir, name, mtime, content].                                      *)
(***************************************************************************)
MdSuffix == <<".", "m", "d">>

AnyMatch(name, patterns) ==
    \E i \in 1..Len(patterns) : matchPattern(name, patterns[i])

\* The size os.Stat reports: the bytes of each character, the time stamp
\* "2006-01-02 15:04:05" counted with its 19.
ElementSize(e) == IF e = "NOW" THEN 19 ELSE Utf8Width(e)

\* The sum of the sizes, by halves.
RECURSIVE SizeOf(_)
SizeOf(data) ==
    IF data = <<>> THEN 0
    ELSE IF Len(data) = 1 THEN ElementSize(data[1])
    ELSE LET half == Len(data) \div 2
         IN  SizeOf(SubSeq(data, 1, half)) + SizeOf(SubSeq(data, half + 1, Len(data)))

\* walkFunc on a regular file: the records it appends to files.
walkFuncFileNoExclude(sc, d, f) ==
    IF ~HasSuffix(ToLower(f.name), MdSuffix) THEN <<>>
    ELSE IF Len(sc.IncludePatterns) > 0 /\ ~AnyMatch(f.name, sc.IncludePatterns)
    THEN <<>>
    ELSE <<[Path |-> <<sc.Directory>> \o d \o <<f.name>>, Name |-> f.name,
            ModTime |-> f.mtime, Size |-> SizeOf(f.content)]>>

walkFuncFile(sc, d, f) ==
    IF ~HasSuffix(ToLower(f.name), MdSuffix) THEN <<>>
    ELSE IF Len(sc.IncludePatterns) > 0 /\ ~AnyMatch(f.name, sc.IncludePatterns)
    THEN <<>>
    ELSE IF AnyMatch(f.name, sc.ExcludePatterns) THEN <<>>
    ELSE <<[Path |-> <<sc.Directory>> \o d \o <<f.name>>, Name |-> f.name,
            ModTime |-> f.mtime, Size |-> SizeOf(f.content)]>>

\* walkFunc on a directory: TRUE when it answers filepath.SkipDir.
walkFuncSkipNever(sc, d) == FALSE

walkFuncSkipDir(sc, d) == ~sc.Recursive /\ d # <<>>

ChildNames(fsys, d) ==
    {f.name : f \in {g \in fsys.files : g.dir = d}}
        \cup {p[Len(p)] : p \in {q \in fsys.dirs :
                                    Len(q) = Len(d) + 1 /\ SubSeq(q, 1, Len(d)) = d}}

\* readDirNames: the names of a directory, sorted.
RECURSIVE SortNames(_)
SortNames(S) ==
    IF S = {} THEN <<>>
    ELSE LET m == CHOOSE x \in S : \A y \in S : x = y \/ LessStr(x, y)
         IN  <<m>> \o SortNames(S \ {m})

FileAt(fsys, d, name) == CHOOSE f \in fsys.files : f.dir = d /\ f.name = name

\* filepath.Walk below directory d: [err, files].  The directory is listed
\* before walkFunc sees it, so a directory that cannot be listed is an
\* error even where walkFunc would have skipped it.
RECURSIVE walk(_, _, _)
RECURSIVE walkNames(_, _, _, _)
walk(fsys, sc, d) ==
    IF d \in fsys.unreadable THEN [err |-> TRUE, files |-> <<>>]
    ELSE IF walkFuncSkipDir(sc, d) THEN [err |-> FALSE, files |-> <<>>]
    ELSE walkNames(fsys, sc, d, SortNames(ChildNames(fsys, d)))

walkNames(fsys, sc, d, names) ==
    IF names = <<>> THEN [err |-> FALSE, files |-> <<>>]
    ELSE LET first == IF Append(d, Head(names)) \in fsys.dirs
                      THEN walk(fsys, sc, Append(d, Head(names)))
                      ELSE [err |-> FALSE,
                            files |-> walkFuncFile(sc, d, FileAt(fsys, d, Head(names)))]
         IN  IF first.err THEN [err |-> TRUE, files |-> <<>>]
             ELSE LET rest == walkNames(fsys, sc, d, Tail(names))
                  IN  [err |-> rest.err, files |-> first.files \o rest.files]

\* [err, files]: err is "" on success.
ScanMarkdownFiles(fsys, sc) ==
    IF ~fsys.exists THEN [err |-> "directory does not exist", files |-> <<>>]
    ELSE LET w == walk(fsys, sc, <<>>)
         IN  IF w.err THEN [err |-> "error walking directory", files |-> <<>>]
             ELSE [err |-> "", files |-> w.files]

(***************************************************************************)
(* SortMarkdownFiles.  sort.Slice sorts a slice of at most 12 elements by  *)
(* insertion: each element moves left while it is less than the one before *)
(* it.                                                                     *)
(***************************************************************************)
\* "modified" with the comparison turned round: newest first.
FileLessNewestFirst(order, a, b) ==
    CASE order = "filename" -> LessStr(a.Name, b.Name)
      [] order = "modified" -> b.ModTime < a.ModTime
      [] order = "size" -> a.Size < b.Size
      [] order = "custom" -> LessStr(a.Name, b.Name)
      [] OTHER -> LessStr(a.Name, b.Name)

\* "custom" and the unrecognised orders falling back to the time.
FileLessFallbackByTime(order, a, b) ==
    CASE order = "filename" -> LessStr(a.Name, b.Name)
      [] order = "modified" -> a.ModTime < b.ModTime
      [] order = "size" -> a.Size < b.Size
      [] order = "custom" -> a.ModTime < b.ModTime
      [] OTHER -> a.ModTime < b.ModTime

\* "<=" where the code has "<".
FileLessOrEqual(order, a, b) ==
    CASE order = "filename" -> ~LessStr(b.Name, a.Name)
      [] order = "modified" -> a.ModTime <= b.ModTime
      [] order = "size" -> a.Size <= b.Size
      [] order = "custom" -> ~LessStr(b.Name, a.Name)
      [] OTHER -> ~LessStr(b.Name, a.Name)

FileLess(order, a, b) ==
    CASE order = "filename" -> LessStr(a.Name, b.Name)
      [] order = "modified" -> a.ModTime < b.ModTime
      [] order = "size" -> a.Size < b.Size
      [] order = "custom" -> LessStr(a.Name, b.Name)
      [] OTHER -> LessStr(a.Name, b.Name)

RECURSIVE InsertLeft(_, _, _)
InsertLeft(sorted, x, order) ==
    IF sorted # <<>> /\ FileLess(order, x, sorted[Len(sorted)])
    THEN Append(InsertLeft(SubSeq(sorted, 1, Len(sorted) - 1), x, order),
                sorted[Len(sorted)])
    ELSE Append(sorted, x)

RECURSIVE InsertionSort(_, _, _)
InsertionSort(done, todo, order) ==
    IF todo = <<>> THEN done
    ELSE InsertionSort(InsertLeft(done, Head(todo), order), Tail(todo), order)

SortMarkdownFiles(files, order) == InsertionSort(<<>>, files, order)

(***************************************************************************)
(* merge.go: document title, table of contents and body of one file.       *)
(* A write is a record [kind, data]: the WriteString call and its bytes.   *)
(***************************************************************************)
Chunk(kind, data) == [kind |-> kind, data |-> data]

\* filepath.Base: "." for the empty path, "/" for a path of slashes,
\* otherwise the last element once the trailing slashes are cut.
Base(path) ==
    IF path = <<>> THEN <<".">>
    ELSE LET ends == {i \in 1..Len(path) : path[i] # "/"}
         IN  IF ends = {} THEN <<"/">>
             ELSE LET last == CHOOSE i \in ends : \A j \in ends : j <= i
                      slashes == {i \in 1..last : path[i] = "/"}
                      first == IF slashes = {} THEN 1
                               ELSE 1 + CHOOSE i \in slashes : \A j \in slashes : j <= i
                  IN  SubSeq(path, first, last)

\* strings.TrimSuffix(base, filepath.Ext(base)): cut at the last '.'.
TrimExt(base) ==
    LET dots == {i \in 1..Len(base) : base[i] = "."}
    IN  IF dots = {} THEN base
        ELSE SubSeq(base, 1, (CHOOSE i \in dots : \A j \in dots : j <= i) - 1)

ReplaceAll(s, old, new) == [i \in 1..Len(s) |-> IF s[i] = old THEN new ELSE s[i]]

\* strings.Fields: the maximal runs of characters that are not white space.
RECURSIVE FieldsFrom(_, _)
FieldsFrom(s, cur) ==
    IF s = <<>> THEN (IF cur = <<>> THEN <<>> ELSE <<cur>>)
    ELSE IF IsSpace(Head(s))
    THEN (IF cur = <<>> THEN <<>> ELSE <<cur>>) \o FieldsFrom(Tail(s), <<>>)
    ELSE FieldsFrom(Tail(s), Append(cur, Head(s)))

Fields(s) == FieldsFrom(s, <<>>)

RECURSIVE JoinWith(_, _)
JoinWith(parts, sep) ==
    IF parts = <<>> THEN <<>>
    ELSE IF Len(parts) = 1 THEN parts[1]
    ELSE parts[1] \o sep \o JoinWith(Tail(parts), sep)

\* The names of a path one after the other as filepath.Clean keeps them:
\* "" and "." are dropped, ".." takes the name before it away, ".." at the
\* root is dropped and ".." at the start of a relative path stays.
RECURSIVE ResolveNames(_, _, _)
ResolveNames(names, seen, rooted) ==
    IF names = <<>> THEN seen
    ELSE IF Head(names) \in {<<>>, <<".">>} THEN ResolveNames(Tail(names), seen, rooted)
    ELSE IF Head(names) = <<".", ".">> /\ seen # <<>> /\ seen[Len(seen)] # <<".", ".">>
    THEN ResolveNames(Tail(names), SubSeq(seen, 1, Len(seen) - 1), rooted)
    ELSE IF Head(names) = <<".", ".">> /\ rooted
    THEN ResolveNames(Tail(names), seen, rooted)
    ELSE ResolveNames(Tail(names), Append(seen, Head(names)), rooted)

\* The names of path between its slashes, the empty ones too: those from
\* position i on, after the names read so far.
RECURSIVE PathNamesFrom(_, _, _, _)
PathNamesFrom(path, i, from, names) ==
    IF i > Len(path) THEN Append(names, SubSeq(path, from, Len(path)))
    ELSE IF path[i] = "/"
    THEN PathNamesFrom(path, i + 1, i + 1, Append(names, SubSeq(path, from, i - 1)))
    ELSE PathNamesFrom(path, i + 1, from, names)

PathNames(path) == PathNamesFrom(path, 1, 1, <<>>)

Rooted(path) == path # <<>> /\ Head(path) = "/"

\* The cleaned path of the names that are kept.
CleanOf(names, rooted) ==
    IF rooted THEN <<"/">> \o JoinWith(names, <<"/">>)
    ELSE IF names = <<>> THEN <<".">>
    ELSE JoinWith(names, <<"/">>)

\* filepath.Clean on a system whose separator is '/'.
Clean(path) ==
    CleanOf(ResolveNames(PathNames(path), <<>>, Rooted(path)), Rooted(path))

NotEmpty(elem) == elem # <<>>

JoinKept(kept) ==
    IF kept = <<>> THEN <<>> ELSE Clean(JoinWith(kept, <<"/">>))

\* filepath.Join: the empty elements are left out, the rest is joined with
\* '/' and cleaned; the empty string if nothing is left.
JoinPath(elems) == JoinKept(SelectSeq(elems, NotEmpty))

\* The first letter upper-cased and the rest lower-cased: the code has no
\* such word function, this one states what the title is meant to be.
TitleWordByRune(word) == <<ToUpperChar(Head(word))>> \o ToLower(Tail(word))

\* strings.ToUpper(word[:1]) + strings.ToLower(word[1:]): the slices are
\* byte slices, so a first character of several bytes is cut after its
\* first byte and each of its bytes comes out as U+FFFD.
TitleWord(word) ==
    IF Utf8Width(Head(word)) = 1
    THEN <<ToUpperChar(Head(word))>> \o ToLower(Tail(word))
    ELSE Repeat(<<RuneError>>, Utf8Width(Head(word))) \o ToLower(Tail(word))

generateDocumentTitle(outputFile) ==
    LET name == TrimExt(Base(outputFile))
    IN  IF name = <<"m", "e", "r", "g", "e", "d">>
        THEN <<"D", "o", "c", "u", "m", "e", "n", "t">>
        ELSE LET words == Fields(ReplaceAll(ReplaceAll(name, "_", " "), "-", " "))
             IN  JoinWith([i \in 1..Len(words) |-> TitleWord(words[i])], <<" ">>)

\* The writes of writeDocumentHeader, in order.  "NOW" is time.Now().
\* The directory of the command as it is spelt on the command line.
Spelt(dir) == CASE dir = "docs" -> <<"d", "o", "c", "s">>

MetaBlock(a, n) ==
    <<"<", "!", "-", "-", " ", "G", "e", "n", "e", "r", "a", "t", "e", "d",
      " ", "b", "y", " ", "d", "o", "c", " ", "m", "e", "r", "g", "e", " ",
      "a", "t", " ">>
        \o <<"NOW">>
        \o <<" ", "-", "-", ">", NL, "<", "!", "-", "-", " ", "S", "o", "u",
          "r", "c", "e", " ", "d", "i", "r", "e", "c", "t", "o", "r", "y",
          ":", " ">>
        \o Spelt(a.MergeDirectory)
        \o <<" ", "-", "-", ">", NL, "<", "!", "-", "-", " ", "F", "i", "l",
          "e", "s", " ", "m", "e", "r", "g", "e", "d", ":", " ">>
        \o <<Digits[n + 1]>>
        \o <<" ", "-", "-", ">", NL, "<", "!", "-", "-", " ", "C", "o", "m",
          "m", "a", "n", "d", ":", " ", "d", "o", "c", " ", "m", "e", "r",
          "g", "e", " ">>
        \o Spelt(a.MergeDirectory)
        \o <<" ", "-", "-", ">", NL, NL>>

DocumentHeaderWrites(a, files) ==
    <<Chunk("title", <<"#", " ">> \o generateDocumentTitle(a.MergeOutputFile)
                        \o <<NL, NL>>)>>
        \o (IF a.MergeIncludeMeta
            THEN <<Chunk("meta", MetaBlock(a, Len(files)))>>
            ELSE <<>>)

\* utils.MaskAPIKey, on the bytes of the key.
MaskAPIKey(key) ==
    IF key = <<>> THEN <<"(", "n", "o", "t", " ", "s", "e", "t", ")">>
    ELSE IF Len(key) < MaskMinLen THEN <<"*", "*", "*">>
    ELSE SubSeq(key, 1, MaskShown) \o <<".", ".", ".">>
            \o SubSeq(key, Len(key) - MaskShown + 1, Len(key))

TOCHeading ==
    <<"#", "#", " ", "T", "a", "b", "l", "e", " ", "o", "f", " ", "C", "o",
      "n", "t", "e", "n", "t", "s", NL, NL>>

\* The anchor of a header text: ReplaceAll, ToLower, then strings.Map.
\* The filter without its digits.
LinkKeepsLetters(r) == \E i \in 1..Len(LowerCase) : LowerCase[i] = r

LinkKeeps(r) ==
    \/ \E i \in 1..Len(LowerCase) : LowerCase[i] = r
    \/ \E i \in 1..Len(Digits) : Digits[i] = r

RECURSIVE MapLink(_)
MapLink(s) ==
    IF s = <<>> THEN <<>>
    ELSE IF Head(s) = " " \/ Head(s) = "-" THEN <<"-">> \o MapLink(Tail(s))
    ELSE IF LinkKeeps(Head(s)) THEN <<Head(s)>> \o MapLink(Tail(s))
    ELSE MapLink(Tail(s))

Link(text) == MapLink(ToLower(ReplaceAll(text, " ", "-")))

TOCLine(header, adjustedLevel) ==
    Repeat(<<" ", " ">>, adjustedLevel - 2)
        \o <<"-", " ", "[">> \o header.Text \o <<"]", "(", "#">>
        \o Link(header.Text) \o <<")", NL>>

\* The loop of writeTOC over the headers of one file: the entries written,
\* and whether strings.Repeat panicked (the entries before it are written).
RECURSIVE TOCEntries(_, _)
TOCEntries(headers, a) ==
    IF headers = <<>> THEN [panic |-> FALSE, writes |-> <<>>]
    ELSE LET adjustedLevel == Head(headers).Level + a.MergeBaseLevel - 1
         IN  IF adjustedLevel > a.MergeTOCDepth + 1
             THEN TOCEntries(Tail(headers), a)
             ELSE IF RepeatPanics(adjustedLevel - 2)
             THEN [panic |-> TRUE, writes |-> <<>>]
             ELSE LET rest == TOCEntries(Tail(headers), a)
                  IN  [panic |-> rest.panic,
                       writes |-> <<Chunk("tocEntry", TOCLine(Head(headers), adjustedLevel))>>
                                    \o rest.writes]

\* filepath.Rel(MergeDirectory, file.Path): the names below the directory.
RelPath(path) == JoinWith(Tail(path), <<"/">>)

SourceComment(file) ==
    <<"<", "!", "-", "-", " ", "S", "o", "u", "r", "c", "e", ":", " ">>
        \o RelPath(file.Path) \o <<" ", "-", "-", ">", NL>>

\* mergeFile after a successful read: the writes, in order.
MergeFileBody(content, a) ==
    LET fileContent == IF a.MergeAdjustHeaders
                       THEN adjustHeaderLevels(content, a.MergeBaseLevel)
                       ELSE content
    IN  <<Chunk("content", fileContent)>>
            \o (IF ~HasSuffix(fileContent, <<NL>>)
                THEN <<Chunk("newline", <<NL>>)>>
                ELSE <<>>)

\* The bytes of a file written chunk by chunk.
RECURSIVE Bytes(_)
Bytes(chunks) ==
    IF chunks = <<>> THEN <<>> ELSE Head(chunks).data \o Bytes(Tail(chunks))

(***************************************************************************)
(* merge.go: formatFileSize and the manifest of runDryMode.                *)
(***************************************************************************)
Unit == 1024

\* "for n := size / unit; n >= unit; n /= unit { div *= unit; exp++ }"
RECURSIVE SizeScale(_, _, _)
SizeScale(n, div, exp) ==
    IF n >= Unit THEN SizeScale(n \div Unit, div * Unit, exp + 1)
    ELSE [div |-> div, exp |-> exp]

\* "%d B" below the unit, else "%.1f %cB" of float64(size)/float64(div):
\* the quotient is exact in a float64, and %.1f rounds it to the nearest
\* tenth, a tie to the even one.
formatFileSize(size) ==
    IF size < Unit THEN <<size, " ", "B">>
    ELSE LET sc == SizeScale(size \div Unit, Unit, 0)
             down == (size * 10) \div sc.div
             rest == (size * 10) % sc.div
             tenths == IF 2 * rest > sc.div \/ (2 * rest = sc.div /\ down % 2 = 1)
                       THEN down + 1 ELSE down
         IN  <<tenths \div 10, ".", tenths % 10, " ",
               <<"K", "M", "G", "T", "P", "E">>[sc.exp + 1], "B">>

RECURSIVE TotalSize(_)
TotalSize(fs) == IF fs = <<>> THEN 0 ELSE Head(fs).Size + TotalSize(Tail(fs))

DryRunLines(a, fs) ==
    <<[line |-> "header"]>>
        \o [i \in 1..Len(fs) |->
                [line |-> "file", index |-> i, relPath |-> RelPath(fs[i].Path),
                 size |-> formatFileSize(fs[i].Size)]]
        \o <<[line |-> "output", path |-> a.MergeOutputFile],
             [line |-> "total", size |-> formatFileSize(TotalSize(fs))]>>

\* os.ReadFile(file.Path) when it succeeds.
ReadFile(fsys, dir, path) ==
    (CHOOSE f \in fsys.files : <<dir>> \o f.dir \o <<f.name>> = path).content

\* "if i < len(files)-1", with i counted from 1.
SeparatorAfterEvery(i, n) == TRUE

SeparatorAfter(i, n) == i < n

(***************************************************************************)
(* Command line: the words parseArgs and parseMergeArgs compare with.      *)
(***************************************************************************)
\* The first arguments parseArgs knows.
Command ==
    [v |-> <<"-", "v">>,
     merge |-> <<"m", "e", "r", "g", "e">>,
     list |-> <<"-", "-", "l", "i", "s", "t">>,
     listModels |-> <<"-", "-", "l", "i", "s", "t", "-", "m", "o", "d", "e", "l", "s">>,
     config |-> <<"-", "-", "c", "o", "n", "f", "i", "g">>,
     initConfig |-> <<"-", "-", "i", "n", "i", "t", "-", "c", "o", "n", "f", "i", "g">>,
     set |-> <<"-", "-", "s", "e", "t">>]

\* The options of parseMergeArgs.
Flag ==
    [r |-> <<"-", "r">>,
     recursive |-> <<"-", "-", "r", "e", "c", "u", "r", "s", "i", "v", "e">>,
     dryRun |-> <<"-", "-", "d", "r", "y", "-", "r", "u", "n">>,
     includeMeta |-> <<"-", "-", "i", "n", "c", "l", "u", "d", "e", "-", "m", "e", "t", "a">>,
     noTOC |-> <<"-", "-", "n", "o", "-", "t", "o", "c">>,
     adjustHeaders |-> <<"-", "-", "a", "d", "j", "u", "s", "t", "-", "h", "e", "a", "d", "e", "r", "s">>,
     o |-> <<"-", "o">>,
     output |-> <<"-", "-", "o", "u", "t", "p", "u", "t">>,
     order |-> <<"-", "-", "o", "r", "d", "e", "r">>,
     separator |-> <<"-", "-", "s", "e", "p", "a", "r", "a", "t", "o", "r">>,
     tocDepth |-> <<"-", "-", "t", "o", "c", "-", "d", "e", "p", "t", "h">>,
     baseLevel |-> <<"-", "-", "b", "a", "s", "e", "-", "l", "e", "v", "e", "l">>,
     include |-> <<"-", "-", "i", "n", "c", "l", "u", "d", "e">>,
     exclude |-> <<"-", "-", "e", "x", "c", "l", "u", "d", "e">>]

\* The orders of isValidOrder.
Order ==
    [filename |-> <<"f", "i", "l", "e", "n", "a", "m", "e">>,
     modified |-> <<"m", "o", "d", "i", "f", "i", "e", "d">>,
     size |-> <<"s", "i", "z", "e">>,
     custom |-> <<"c", "u", "s", "t", "o", "m">>]


MergedMd == <<"m", "e", "r", "g", "e", "d", ".", "m", "d">>

\* A nil *CLIArgs.
NilArgs == [IsNil |-> TRUE]

\* The CLIArgs parseArgs starts from.
DefaultCLIArgs ==
    [Verbose |-> FALSE, TargetLanguage |-> <<>>, TransformInstruction |-> <<>>,
     ShowList |-> FALSE, ShowListModels |-> FALSE, ListModelsProvider |-> <<>>,
     ShowConfig |-> FALSE, SetConfig |-> <<>>, InitConfig |-> FALSE,
     IsMergeCommand |-> FALSE, MergeDirectory |-> <<>>, MergeOutputFile |-> <<>>,
     MergeRecursive |-> FALSE, MergeOrder |-> Order.filename,
     MergeSeparator |-> <<NL, NL, "-", "-", "-", NL, NL>>,
     MergeIncludeMeta |-> FALSE, MergeGenerateTOC |-> TRUE, MergeTOCDepth |-> 3,
     MergeAdjustHeaders |-> TRUE, MergeBaseLevel |-> 2,
     MergeIncludePatterns |-> <<>>, MergeExcludePatterns |-> <<>>,
     MergeDryRun |-> FALSE]

\* What a parse ends in: the CLIArgs, an error, or os.Exit(1).
ParseOk(cli) == [outcome |-> "ok", err |-> "", cli |-> cli]
ParseError(message) == [outcome |-> "error", err |-> message, cli |-> NilArgs]
ParseExit == [outcome |-> "exit", err |-> "requires a valid integer", cli |-> NilArgs]

validOrders == {Order.filename, Order.modified, Order.size, Order.custom}

isValidOrderAny(order) == TRUE

isValidOrder(order) == order \in validOrders

\* strconv.Atoi: an optional sign and one or more decimal digits.
IsDigit(c) == \E i \in 1..Len(Digits) : Digits[i] = c

DigitValue(c) == (CHOOSE i \in 1..Len(Digits) : Digits[i] = c) - 1

RECURSIVE DecimalValue(_, _)
DecimalValue(s, acc) ==
    IF s = <<>> THEN acc ELSE DecimalValue(Tail(s), acc * 10 + DigitValue(Head(s)))

\* The digits of 1<<63, the magnitude of the least int.
IntCutoff ==
    <<"9", "2", "2", "3", "3", "7", "2", "0", "3", "6", "8", "5", "4", "7", "7", "5",
      "8", "0", "8">>

RECURSIVE TrimZeros(_)
TrimZeros(digits) ==
    IF digits # <<>> /\ Head(digits) = "0" THEN TrimZeros(Tail(digits)) ELSE digits

\* a < b for digit strings of one length.
RECURSIVE LessDigits(_, _)
LessDigits(a, b) ==
    IF a = <<>> THEN FALSE
    ELSE IF Head(a) # Head(b) THEN DigitValue(Head(a)) < DigitValue(Head(b))
    ELSE LessDigits(Tail(a), Tail(b))

\* An int of 64 bits, held by its sign and the decimal digits of its
\* magnitude without leading zeros: 0 has no digit and no sign.
IntZero == [neg |-> FALSE, digits |-> <<>>]

\* The int as a number, for the ints of up to nine digits.
IntOf(n) ==
    IF n.neg THEN 0 - DecimalValue(n.digits, 0) ELSE DecimalValue(n.digits, 0)

\* strconv.Atoi with a 64-bit int: a syntax error for anything but an
\* optional sign and decimal digits, a range error outside
\* -(1<<63) .. (1<<63)-1.
Atoi(s) ==
    LET signed == s # <<>> /\ Head(s) \in {"+", "-"}
        neg == signed /\ Head(s) = "-"
        digits == IF signed THEN Tail(s) ELSE s
        sig == TrimZeros(digits)
        inRange == \/ Len(sig) < Len(IntCutoff)
                   \/ Len(sig) = Len(IntCutoff)
                        /\ (LessDigits(sig, IntCutoff) \/ (neg /\ sig = IntCutoff))
    IN  IF digits = <<>> \/ \E i \in 1..Len(digits) : ~IsDigit(digits[i])
        THEN [err |-> TRUE, val |-> IntZero]
        ELSE IF ~inRange THEN [err |-> TRUE, val |-> IntZero]
        ELSE [err |-> FALSE, val |-> [neg |-> neg /\ sig # <<>>, digits |-> sig]]

\* "if depth < 1 || depth > 6": an int of ten digits or more is below 1 or
\* above 6.
OutOfRange(n) ==
    \/ Len(n.digits) > 9
    \/ IntOf(n) < MinOption \/ IntOf(n) > MaxOption

\* "if i+1 >= len(args)", with i counted from 1.
MissingValue(a, i) == i + 1 > Len(a)

\* parseMergeArgs: the loop over the arguments from position i, then the
\* assignment of the non-flag arguments.
RECURSIVE ParseMergeLoop(_, _, _, _)
ParseMergeLoop(cli, a, i, nonFlagArgs) ==
    IF i > Len(a)
    THEN IF Len(nonFlagArgs) < 1
         THEN ParseError("merge command requires a directory argument")
         ELSE ParseOk([cli EXCEPT
                !.MergeDirectory = nonFlagArgs[1],
                !.MergeOutputFile = IF Len(nonFlagArgs) > 1 THEN nonFlagArgs[2]
                                    ELSE IF cli.MergeOutputFile = <<>> THEN MergedMd
                                    ELSE cli.MergeOutputFile])
    ELSE LET arg == a[i]
         IN  IF ~HasPrefix(arg, <<"-">>)
             THEN ParseMergeLoop(cli, a, i + 1, Append(nonFlagArgs, arg))
             ELSE IF arg \in {Flag.r, Flag.recursive}
             THEN ParseMergeLoop([cli EXCEPT !.MergeRecursive = TRUE], a, i + 1, nonFlagArgs)
             ELSE IF arg = Flag.dryRun
             THEN ParseMergeLoop([cli EXCEPT !.MergeDryRun = TRUE], a, i + 1, nonFlagArgs)
             ELSE IF arg = Flag.includeMeta
             THEN ParseMergeLoop([cli EXCEPT !.MergeIncludeMeta = TRUE], a, i + 1, nonFlagArgs)
             ELSE IF arg = Flag.noTOC
             THEN ParseMergeLoop([cli EXCEPT !.MergeGenerateTOC = FALSE], a, i + 1, nonFlagArgs)
             ELSE IF arg = Flag.adjustHeaders
             THEN ParseMergeLoop([cli EXCEPT !.MergeAdjustHeaders = TRUE], a, i + 1, nonFlagArgs)
             ELSE IF arg \in {Flag.o, Flag.output}
             THEN IF MissingValue(a, i) THEN ParseError("requires a value")
                  ELSE ParseMergeLoop([cli EXCEPT !.MergeOutputFile = a[i + 1]],
                                      a, i + 2, nonFlagArgs)
             ELSE IF arg = Flag.order
             THEN IF MissingValue(a, i) THEN ParseError("--order requires a value")
                  ELSE IF ~isValidOrder(a[i + 1]) THEN ParseError("invalid order")
                  ELSE ParseMergeLoop([cli EXCEPT !.MergeOrder = a[i + 1]],
                                      a, i + 2, nonFlagArgs)
             ELSE IF arg = Flag.separator
             THEN IF MissingValue(a, i) THEN ParseError("--separator requires a value")
                  ELSE ParseMergeLoop([cli EXCEPT !.MergeSeparator = a[i + 1]],
                                      a, i + 2, nonFlagArgs)
             ELSE IF arg = Flag.tocDepth
             THEN IF MissingValue(a, i) THEN ParseError("--toc-depth requires a value")
                  ELSE IF Atoi(a[i + 1]).err THEN ParseExit
                  ELSE IF OutOfRange(Atoi(a[i + 1]).val)
                  THEN ParseError("--toc-depth must be between 1 and 6")
                  ELSE ParseMergeLoop([cli EXCEPT !.MergeTOCDepth = IntOf(Atoi(a[i + 1]).val)],
                                      a, i + 2, nonFlagArgs)
             ELSE IF arg = Flag.baseLevel
             THEN IF MissingValue(a, i) THEN ParseError("--base-level requires a value")
                  ELSE IF Atoi(a[i + 1]).err THEN ParseExit
                  ELSE IF OutOfRange(Atoi(a[i + 1]).val)
                  THEN ParseError("--base-level must be between 1 and 6")
                  ELSE ParseMergeLoop([cli EXCEPT !.MergeBaseLevel = IntOf(Atoi(a[i + 1]).val)],
                                      a, i + 2, nonFlagArgs)
             ELSE IF arg = Flag.include
             THEN IF MissingValue(a, i) THEN ParseError("--include requires a pattern")
                  ELSE ParseMergeLoop([cli EXCEPT !.MergeIncludePatterns =
                                            Append(cli.MergeIncludePatterns, a[i + 1])],
                                      a, i + 2, nonFlagArgs)
             ELSE IF arg = Flag.exclude
             THEN IF MissingValue(a, i) THEN ParseError("--exclude requires a pattern")
                  ELSE ParseMergeLoop([cli EXCEPT !.MergeExcludePatterns =
                                            Append(cli.MergeExcludePatterns, a[i + 1])],
                                      a, i + 2, nonFlagArgs)
             ELSE ParseError("unknown merge option")

parseMergeArgs(cli, a) ==
    IF Len(a) < 1
    THEN ParseError("merge command requires a directory argument")
    ELSE ParseMergeLoop([cli EXCEPT !.IsMergeCommand = TRUE], a, 1, <<>>)

parseArgs(osargs) ==
    LET v == Len(osargs) > 0 /\ osargs[1] = Command.v
        a == IF v THEN Tail(osargs) ELSE osargs
        cli == [DefaultCLIArgs EXCEPT !.Verbose = v]
    IN  IF Len(a) < 1 THEN ParseError("missing required arguments")
        ELSE IF a[1] = Command.merge
        THEN parseMergeArgs([cli EXCEPT !.IsMergeCommand = TRUE], Tail(a))
        ELSE IF a[1] = Command.list THEN ParseOk([cli EXCEPT !.ShowList = TRUE])
        ELSE IF a[1] = Command.listModels
        THEN ParseOk([cli EXCEPT !.ShowListModels = TRUE,
                                 !.ListModelsProvider = IF Len(a) > 1 THEN a[2] ELSE <<>>])
        ELSE IF a[1] = Command.config THEN ParseOk([cli EXCEPT !.ShowConfig = TRUE])
        ELSE IF a[1] = Command.initConfig THEN ParseOk([cli EXCEPT !.InitConfig = TRUE])
        ELSE IF a[1] = Command.set
        THEN IF Len(a) < 2 THEN ParseError("--set requires key=value pairs")
             ELSE ParseOk([cli EXCEPT !.SetConfig = Tail(a)])
        ELSE ParseOk([cli EXCEPT !.TargetLanguage = a[1],
                                 !.TransformInstruction = IF Len(a) > 1 THEN a[2] ELSE <<>>])

\* The keys of supportedLanguages.
supportedLanguages ==
    {<<"j", "a">>, <<"e", "n">>, <<"k", "o">>, <<"z", "h">>, <<"r", "u">>, <<"e", "s">>, <<"f", "r">>, <<"d", "e">>, <<"i", "t">>, <<"p", "t">>, <<"n", "l">>, <<"s", "v">>, <<"n", "o">>, <<"d", "a">>, <<"f", "i">>, <<"p", "l">>, <<"c", "s">>, <<"h", "u">>, <<"r", "o">>, <<"b", "g">>, <<"h", "r">>, <<"s", "k">>, <<"s", "l">>, <<"e", "t">>, <<"l", "v">>, <<"l", "t">>, <<"m", "t">>, <<"e", "l">>, <<"t", "r">>, <<"a", "r">>, <<"h", "e">>, <<"h", "i">>, <<"t", "h">>, <<"v", "i">>, <<"i", "d">>, <<"m", "s">>, <<"t", "l">>, <<"s", "w">>, <<"a", "m">>}

validateLanguageCodeWithMap(code, supportedLangs) == code \in supportedLangs

(***************************************************************************)
(* config: Load, the config file, .env and the environment; main.go:       *)
(* setConfigValues.  A Config is a record of seven strings and Verbose.    *)
(* The config files are kept by their paths, as a sequence of              *)
(* <<path, Config>> with each path once.                                   *)
(***************************************************************************)
NoFile == [IsNil |-> TRUE]

\* A config file that toml.DecodeFile rejects.
CorruptFile == [IsNil |-> FALSE, Decodes |-> FALSE]

StringFields ==
    {"ProviderType", "OpenAIAPIKey", "AnthropicAPIKey", "ClaudeCodePath", "OpenAIModel", "AnthropicModel", "ClaudeModel"}

ProviderTypes == {<<"c", "l", "a", "u", "d", "e", "-", "c", "o", "d", "e">>, <<"o", "p", "e", "n", "a", "i">>, <<"a", "n", "t", "h", "r", "o", "p", "i", "c">>}

\* The struct Load starts with.
DefaultConfig ==
    [ProviderType |-> <<"c", "l", "a", "u", "d", "e", "-", "c", "o", "d", "e">>,
     OpenAIAPIKey |-> <<>>,
     AnthropicAPIKey |-> <<>>,
     ClaudeCodePath |-> <<"c", "l", "a", "u", "d", "e">>,
     OpenAIModel |-> <<"g", "p", "t", "-", "4", "o", "-", "m", "i", "n", "i">>,
     AnthropicModel |-> <<"c", "l", "a", "u", "d", "e", "-", "3", "-", "5", "-", "h", "a", "i", "k", "u", "-", "2", "0", "2", "4", "1", "0", "2", "2">>,
     ClaudeModel |-> <<"s", "o", "n", "n", "e", "t">>,
     Verbose |-> FALSE]

\* The struct a config file without keys decodes to.
ZeroConfig ==
    [ProviderType |-> <<>>,
     OpenAIAPIKey |-> <<>>,
     AnthropicAPIKey |-> <<>>,
     ClaudeCodePath |-> <<>>,
     OpenAIModel |-> <<>>,
     AnthropicModel |-> <<>>,
     ClaudeModel |-> <<>>,
     Verbose |-> FALSE]

\* The toml key and the environment variable of each field.
TomlKey ==
    [ProviderType |-> <<"p", "r", "o", "v", "i", "d", "e", "r">>,
     OpenAIAPIKey |-> <<"o", "p", "e", "n", "a", "i", "_", "a", "p", "i", "_", "k", "e", "y">>,
     AnthropicAPIKey |-> <<"a", "n", "t", "h", "r", "o", "p", "i", "c", "_", "a", "p", "i", "_", "k", "e", "y">>,
     ClaudeCodePath |-> <<"c", "l", "a", "u", "d", "e", "_", "c", "o", "d", "e", "_", "p", "a", "t", "h">>,
     OpenAIModel |-> <<"o", "p", "e", "n", "a", "i", "_", "m", "o", "d", "e", "l">>,
     AnthropicModel |-> <<"a", "n", "t", "h", "r", "o", "p", "i", "c", "_", "m", "o", "d", "e", "l">>,
     ClaudeModel |-> <<"c", "l", "a", "u", "d", "e", "_", "m", "o", "d", "e", "l">>]

EnvName ==
    [ProviderType |-> <<"L", "L", "M", "_", "P", "R", "O", "V", "I", "D", "E", "R">>,
     OpenAIAPIKey |-> <<"O", "P", "E", "N", "A", "I", "_", "A", "P", "I", "_", "K", "E", "Y">>,
     AnthropicAPIKey |-> <<"A", "N", "T", "H", "R", "O", "P", "I", "C", "_", "A", "P", "I", "_", "K", "E", "Y">>,
     ClaudeCodePath |-> <<"C", "L", "A", "U", "D", "E", "_", "C", "O", "D", "E", "_", "P", "A", "T", "H">>,
     OpenAIModel |-> <<"O", "P", "E", "N", "A", "I", "_", "M", "O", "D", "E", "L">>,
     AnthropicModel |-> <<"A", "N", "T", "H", "R", "O", "P", "I", "C", "_", "M", "O", "D", "E", "L">>,
     ClaudeModel |-> <<"C", "L", "A", "U", "D", "E", "_", "M", "O", "D", "E", "L">>]

mergeConfig(config, fileConfig) ==
    [f \in DOMAIN config |->
        IF f \in StringFields /\ fileConfig[f] # <<>> THEN fileConfig[f] ELSE config[f]]

\* os.Getenv: the empty string for a variable that is not set.  An
\* environment is a sequence of <<name, value>> with each name once.
Getenv(env, key) ==
    IF \E i \in 1..Len(env) : env[i][1] = key
    THEN env[CHOOSE i \in 1..Len(env) : env[i][1] = key][2]
    ELSE <<>>

overrideWithEnv(config, env) ==
    [f \in DOMAIN config |->
        IF f \in StringFields /\ Getenv(env, EnvName[f]) # <<>>
        THEN Getenv(env, EnvName[f]) ELSE config[f]]

\* The loop of loadEnvFile over the lines of .env: os.Setenv for each
\* KEY=VALUE line whose KEY is not set yet (os.Setenv refuses the empty name).
RECURSIVE ScanEnvLines(_, _)
ScanEnvLines(lines, env) ==
    IF lines = <<>> THEN env
    ELSE LET line == TrimSpace(Head(lines))
             eqs == {i \in 1..Len(line) : line[i] = "="}
             cut == CHOOSE i \in eqs : \A j \in eqs : i <= j
             key == TrimSpace(SubSeq(line, 1, cut - 1))
             value == TrimSpace(SubSeq(line, cut + 1, Len(line)))
         IN  IF line = <<>> \/ HasPrefix(line, <<"#">>) \/ eqs = {}
             THEN ScanEnvLines(Tail(lines), env)
             ELSE IF Getenv(env, key) = <<>> /\ key # <<>>
             THEN ScanEnvLines(Tail(lines),
                               IF \E i \in 1..Len(env) : env[i][1] = key
                               THEN [i \in 1..Len(env) |->
                                       IF env[i][1] = key THEN <<key, value>> ELSE env[i]]
                               ELSE Append(env, <<key, value>>))
             ELSE ScanEnvLines(Tail(lines), env)

loadEnvFile(dotEnv, env) ==
    IF dotEnv.exists THEN ScanEnvLines(dotEnv.lines, env) ELSE env

XdgConfigHome ==
    <<"X", "D", "G", "_", "C", "O", "N", "F", "I", "G", "_", "H", "O", "M", "E">>
Home == <<"H", "O", "M", "E">>

getConfigSubdir ==
    JoinPath(<<<<"b", "i", "g", "d", "r", "a", "5", "0">>, <<"d", "o", "c">>>>)

\* The directory below the homes a process has: below xdgConfigHome if
\* that is set, else below homeDir/.config, or "" without a home directory.
ConfigDirBelow(xdgConfigHome, homeDir, subdir) ==
    IF xdgConfigHome # <<>> THEN JoinPath(<<xdgConfigHome, subdir>>)
    ELSE IF homeDir = <<>> THEN <<>>
    ELSE JoinPath(<<homeDir, <<".", "c", "o", "n", "f", "i", "g">>, subdir>>)

\* config.GetConfigDir in the environment env; os.UserHomeDir fails without
\* $HOME.
GetConfigDir(env) ==
    ConfigDirBelow(Getenv(env, XdgConfigHome), Getenv(env, Home), getConfigSubdir)

ConfigPathIn(configDir) ==
    IF configDir = <<>> THEN <<>>
    ELSE JoinPath(<<configDir,
                    <<"c", "o", "n", "f", "i", "g", ".", "t", "o", "m", "l">>>>)

GetConfigPath(env) == ConfigPathIn(GetConfigDir(env))

\* The file of files at path, NoFile if there is none or the path is "".
ConfigAt(files, path) ==
    IF path # <<>> /\ \E i \in 1..Len(files) : files[i][1] = path
    THEN files[CHOOSE i \in 1..Len(files) : files[i][1] = path][2]
    ELSE NoFile

\* files with the file at path replaced by file, or with file added.
WithConfigAt(files, path, file) ==
    IF \E i \in 1..Len(files) : files[i][1] = path
    THEN [i \in 1..Len(files) |-> IF files[i][1] = path THEN <<path, file>> ELSE files[i]]
    ELSE Append(files, <<path, file>>)

\* config.Load: the Config returned and the environment it leaves.  The
\* path of the config file is taken before .env is read.
LoadFrom(file, loaded) ==
    [config |-> overrideWithEnv(IF file \in {NoFile, CorruptFile}
                                THEN DefaultConfig
                                ELSE mergeConfig(DefaultConfig, file),
                                loaded),
     env |-> loaded]

Load(files, dotEnv, env) ==
    LoadFrom(ConfigAt(files, GetConfigPath(env)), loadEnvFile(dotEnv, env))

\* The loop of setConfigValues: the Config after the pairs, or the error
\* that ends the process.
RECURSIVE ApplyPairs(_, _)
ApplyPairs(config, pairs) ==
    IF pairs = <<>> THEN [config |-> config, err |-> ""]
    ELSE LET pair == Head(pairs)
             eqs == {i \in 1..Len(pair) : pair[i] = "="}
             cut == CHOOSE i \in eqs : \A j \in eqs : i <= j
             key == TrimSpace(SubSeq(pair, 1, cut - 1))
             value == TrimSpace(SubSeq(pair, cut + 1, Len(pair)))
             field == CHOOSE f \in StringFields : TomlKey[f] = key
         IN  IF eqs = {} THEN [config |-> config, err |-> "Invalid format"]
             ELSE IF ~\E f \in StringFields : TomlKey[f] = key
             THEN [config |-> config, err |-> "Unknown configuration key"]
             ELSE IF field = "ProviderType" /\ value \notin ProviderTypes
             THEN [config |-> config, err |-> "Invalid provider"]
             ELSE ApplyPairs([config EXCEPT ![field] = value], Tail(pairs))

\* The fields of Config in the order toml.Encoder writes them.
FieldOrder ==
    <<"ProviderType", "OpenAIAPIKey", "AnthropicAPIKey", "ClaudeCodePath",
      "OpenAIModel", "AnthropicModel", "ClaudeModel", "Verbose">>

\* What a failed Encode leaves of the file os.Create has truncated: the
\* first k lines of the encoding, or a last line cut short, which does not
\* decode.
TruncatedFiles(config) ==
    {[f \in DOMAIN config |->
        IF \E i \in 1..k : FieldOrder[i] = f THEN config[f] ELSE ZeroConfig[f]] :
            k \in 0..(Len(FieldOrder) - 1)}
        \cup {CorruptFile}

\* How SaveConfig can go: every call succeeds, or os.MkdirAll, os.Create
\* or encoder.Encode fails.
SaveFaults(config) ==
    {[at |-> a, left |-> NoFile] : a \in {"none", "MkdirAll", "Create"}}
        \cup {[at |-> "Encode", left |-> l] : l \in TruncatedFiles(config)}

\* config.SaveConfig in the environment env: the config files afterwards
\* and the error returned.  The directory and the path are those of the
\* environment as it is at the call; os.MkdirAll fails on the directory "".
SaveAt(files, configDir, configPath, config, fault) ==
    CASE configDir = <<>> \/ fault.at = "MkdirAll" ->
            [files |-> files, err |-> "failed to create config directory"]
      [] OTHER ->
            CASE fault.at = "none" ->
                    [files |-> WithConfigAt(files, configPath, config), err |-> ""]
              [] fault.at = "Create" ->
                    [files |-> files, err |-> "failed to create config file"]
              [] fault.at = "Encode" ->
                    [files |-> WithConfigAt(files, configPath, fault.left),
                     err |-> "failed to encode config"]

SaveConfig(files, env, config, fault) ==
    SaveAt(files, GetConfigDir(env), GetConfigPath(env), config, fault)

\* main.go initConfigFile and the exit status of main after it.
Saved(files, saved) ==
    [files |-> saved.files, exit |-> IF saved.err = "" THEN 0 ELSE 1]

initConfigFile(files, env, fault) ==
    IF ConfigAt(files, GetConfigPath(env)) # NoFile
    THEN [files |-> files, exit |-> 0]
    ELSE Saved(files, SaveConfig(files, env, DefaultConfig, fault))

\* main.go setConfigValues and the exit status of main after it.  Load
\* reads the file of the environment before .env, SaveConfig writes the
\* file of the environment after it.
setConfigValues(files, dotEnv, env, keyValuePairs, fault) ==
    LET currentConfig == Load(files, dotEnv, env)
        applied == ApplyPairs(currentConfig.config, keyValuePairs)
        saved == SaveConfig(files, currentConfig.env, applied.config, fault)
    IN  IF applied.err # ""
        THEN [files |-> files, env |-> currentConfig.env, config |-> applied.config,
              exit |-> 1]
        ELSE [files |-> saved.files, env |-> currentConfig.env, config |-> applied.config,
              exit |-> IF saved.err = "" THEN 0 ELSE 1]

\* The Config setConfigValues hands to SaveConfig.
ConfigToSave(files, dotEnv, env, keyValuePairs) ==
    ApplyPairs(Load(files, dotEnv, env).config, keyValuePairs).config

(***************************************************************************)
(* Contents the header functions are applied to.                           *)
(***************************************************************************)
Alphabet == {"#", " ", "a", NL, TAB}

SeqsUpTo(S, n) == UNION {[1..k -> S] : k \in 0..n}

RawContents == SeqsUpTo(Alphabet, MaxLen)

HeaderLines ==
    {indent \o Repeat(<<"#">>, n) \o gap \o text \o trail :
        indent \in {<<>>, <<" ">>, <<TAB>>, <<"\f">>, <<NBSP>>, <<"U+3000">>},
        n \in 0..MaxHashes,
        gap \in {<<>>, <<" ">>},
        text \in {<<>>, <<"a">>, <<"a", " ", "b">>},
        trail \in {<<>>, <<" ">>, <<VT>>, <<"U+2003">>}}

SampleLines ==
    {<<"#", " ", "a">>, <<"#", "#", " ", "b">>, <<"#", "#", "#", "c">>,
     <<" ", "#", " ", "a">>, <<"#", "#">>, <<"b">>, <<>>}

SampleContents == {Join(ls) : ls \in SeqsUpTo(SampleLines, MaxLines) \ {<<>>}}

Contents == RawContents \cup HeaderLines \cup SampleContents

Levels == MinOption..MaxOption

(***************************************************************************)
(* Strings the text functions are applied to: header texts, output paths   *)
(* and API keys.                                                           *)
(***************************************************************************)
TextAlphabet == {"a", "B", "1", "-", " ", "_", ".", "/", Kana}

SampleTexts ==
    {<<"m", "e", "r", "g", "e", "d", ".", "m", "d">>,
     <<"d", "o", "c", "s", "/", "m", "e", "r", "g", "e", "d", ".", "m", "d">>,
     <<"m", "e", "r", "g", "e", "d">>,
     <<"M", "e", "r", "g", "e", "d", ".", "m", "d">>,
     <<"u", "s", "e", "r", "-", "g", "u", "i", "d", "e", ".", "m", "d">>,
     <<"a", "p", "i", "_", "r", "e", "f", "e", "r", "e", "n", "c", "e", ".", "m", "d">>,
     <<"b", "o", "o", "k", ".", "m", "d">>,
     <<"H", "e", "l", "l", "o", " ", "W", "o", "r", "l", "d">>,
     <<"h", "e", "l", "l", "o", "-", "w", "o", "r", "l", "d">>}

SampleKeys ==
    {<<"a", "b", "c", "d", "e", "f", "g">>,
     <<"a", "b", "c", "d", "e", "f", "g", "h">>,
     <<"a", "b", "c", "d", "e", "f", "g", "h", "i">>,
     <<"s", "k", "-", "1", "2", "3", "4", "5", "6", "7", "8", "9", "0", "a", "b", "c", "d", "e", "f">>}

Texts == SeqsUpTo(TextAlphabet, MaxText) \cup SampleTexts \cup SampleKeys

(***************************************************************************)
(* File systems and scanners the scan is applied to.                       *)
(***************************************************************************)
NameA == <<"a", ".", "m", "d">>
NameAB == <<"a", "b", ".", "m", "d">>
NameB == <<"b", ".", "m", "d">>
NameBUpper == <<"B", ".", "M", "D">>
NameC == <<"c", ".", "t", "x", "t">>
NameE == <<"e", ".", "m", "d">>
DirD == <<"d">>
DirE == <<"e">>
DirXmd == <<"x", ".", "m", "d">>

File(d, name, mtime, content) ==
    [dir |-> d, name |-> name, mtime |-> mtime, content |-> content]

\* Every directory on the way to a file exists.
DirsOf(files) ==
    UNION {{SubSeq(f.dir, 1, k) : k \in 1..Len(f.dir)} : f \in files}

FileSystem(files, unreadable) ==
    [exists |-> TRUE, dirs |-> DirsOf(files), unreadable |-> unreadable,
     files |-> files]

RootFiles ==
    {File(<<>>, NameA, 3, <<"#", " ", "a">>),
     File(<<>>, NameBUpper, 1, <<"#", "#", " ", "b", NL>>),
     File(<<>>, NameC, 2, <<"c">>),
     File(<<>>, NameAB, 2, <<>>)}

NestedFiles ==
    {File(<<DirD>>, NameA, 1, <<"a">>),
     File(<<DirD>>, NameB, 4, <<"#", "b">>),
     File(<<DirD, DirE>>, NameE, 2, <<"e", NL>>)}

ScanFileSystems ==
    {FileSystem(RootFiles, {}),
     FileSystem(RootFiles \cup NestedFiles, {}),
     FileSystem(NestedFiles, {}),
     FileSystem({File(<<>>, NameA, 1, <<"a">>), File(<<DirXmd>>, NameB, 1, <<"b">>)}, {}),
     FileSystem(RootFiles \cup NestedFiles, {<<DirD>>}),
     FileSystem({}, {}),
     [exists |-> FALSE, dirs |-> {}, unreadable |-> {}, files |-> {}]}

IncludePool ==
    {<<"a", "*">>, <<"[", "a", "-", "b", "]", ".", "m", "d">>, <<"[", "a">>}

ExcludePool ==
    {NameA, <<"*", ".", "M", "D">>, <<"[", "]">>, <<"d", "*">>}

Scanners ==
    [Directory : {"docs"}, Recursive : BOOLEAN,
     IncludePatterns : SeqsUpTo(IncludePool, MaxPatterns),
     ExcludePatterns : SeqsUpTo(ExcludePool, MaxPatterns)]

(***************************************************************************)
(* File records and orders SortMarkdownFiles is applied to.  Records with  *)
(* the same name, size or time differ in their path.                       *)
(***************************************************************************)
MarkdownFile(d, name, size, mtime) ==
    [Path |-> <<"docs">> \o d \o <<name>>, Name |-> name, Size |-> size, ModTime |-> mtime]

SortRecords ==
    {MarkdownFile(<<>>, NameA, 1, 2), MarkdownFile(<<>>, NameAB, 2, 1),
     MarkdownFile(<<>>, NameB, 2, 3), MarkdownFile(<<>>, NameBUpper, 3, 1),
     MarkdownFile(<<DirD>>, NameA, 1, 1), MarkdownFile(<<DirD>>, NameB, 2, 2),
     MarkdownFile(<<DirE>>, NameA, 3, 3), MarkdownFile(<<DirE>>, NameE, 1, 2)}

SortOrders == {"filename", "modified", "size", "custom", "", "date"}

(***************************************************************************)
(* Command lines main is started with.                                     *)
(***************************************************************************)
TokDocs == <<"d", "o", "c", "s">>
TokOutMd == <<"o", "u", "t", ".", "m", "d">>
TokName == <<"n", "a", "m", "e">>
TokUnknownFlag == <<"-", "-", "x">>
TokNotANumber == <<"3", "x">>
TokJa == <<"j", "a">>
TokXx == <<"x", "x">>
TokOpenai == <<"o", "p", "e", "n", "a", "i">>
TokKeyValue == <<"p", "r", "o", "v", "i", "d", "e", "r", "=", "o", "p", "e", "n", "a", "i">>

TokTooLarge ==
    <<"9", "2", "2", "3", "3", "7", "2", "0", "3", "6", "8", "5", "4", "7", "7", "5",
      "8", "0", "8">>

TokAdjustHeadersFalse ==
    <<"-", "-", "a", "d", "j", "u", "s", "t", "-", "h", "e", "a", "d", "e", "r", "s", "=", "f", "a", "l", "s", "e">>

MergeTokens ==
    {TokDocs, TokOutMd, Flag.r, Flag.dryRun, Flag.noTOC, Flag.o, Flag.order, Order.size,
     TokName, Flag.tocDepth, Flag.baseLevel, <<"0">>, <<"3">>, <<"7">>, <<"-", "1">>,
     TokNotANumber, TokTooLarge, Flag.include, TokUnknownFlag, TokAdjustHeadersFalse}

OtherCommands ==
    {<<>>, <<Command.list>>, <<Command.listModels>>, <<Command.listModels, TokOpenai>>, <<Command.config>>,
     <<Command.initConfig>>, <<Command.set>>, <<Command.set, TokKeyValue>>, <<TokJa>>, <<TokXx>>,
     <<TokJa, TokName>>}

CommandLines ==
    {v \o rest : v \in {<<>>, <<Command.v>>},
                 rest \in OtherCommands
                    \cup {<<Command.merge>> \o t : t \in SeqsUpTo(MergeTokens, MaxArgs)}}

(***************************************************************************)
(* Config files, .env files, environments and --set arguments.             *)
(***************************************************************************)
ConfigFiles ==
    {NoFile,
     ZeroConfig,
     [ZeroConfig EXCEPT !.ProviderType = <<"o", "p", "e", "n", "a", "i">>,
                        !.OpenAIAPIKey = <<"k", "-", "f", "i", "l", "e">>,
                        !.Verbose = TRUE],
     [ZeroConfig EXCEPT !.OpenAIModel = <<"o", "l", "d">>]}

EnvProvider ==
    <<<<"L", "L", "M", "_", "P", "R", "O", "V", "I", "D", "E", "R">>, <<"a", "n", "t", "h", "r", "o", "p", "i", "c">>>>
EnvOpenAIKey ==
    <<<<"O", "P", "E", "N", "A", "I", "_", "A", "P", "I", "_", "K", "E", "Y">>, <<"k", "-", "e", "n", "v">>>>

EnvHome == <<Home, <<"/", "h">>>>
EnvXdg == <<XdgConfigHome, <<"/", "t", "m", "p", "/", "x", "/">>>>

\* The environments a process starts in: $HOME is set in all but one, and
\* $XDG_CONFIG_HOME in one.
Environments ==
    {<<EnvHome>>,
     <<EnvHome, EnvProvider, EnvOpenAIKey>>,
     <<EnvHome, EnvXdg>>,
     <<EnvProvider>>}

\* The config files there are at the start: none, one below $HOME/.config,
\* or one there and one below /tmp/x, where a line of .env points.
ConfigFileSets ==
    {IF file = NoFile THEN <<>> ELSE <<<<GetConfigPath(<<EnvHome>>), file>>>> :
            file \in ConfigFiles}
        \cup {<<<<GetConfigPath(<<EnvHome>>),
                  [ZeroConfig EXCEPT !.OpenAIModel = <<"o", "l", "d">>]>>,
                <<GetConfigPath(<<EnvXdg>>),
                  [ZeroConfig EXCEPT !.ProviderType = <<"o", "p", "e", "n", "a", "i">>]>>>>}

DotEnvLines ==
    {<<>>,
     <<<<"L", "L", "M", "_", "P", "R", "O", "V", "I", "D", "E", "R", "=", "c", "l", "a", "u", "d", "e", "-", "c", "o", "d", "e">>>>,
     <<<<"#", " ", "k", "e", "y", "s">>,
       <<" ", "O", "P", "E", "N", "A", "I", "_", "A", "P", "I", "_", "K", "E", "Y", " ", "=", " ", "k", "-", "d", "o", "t", " ">>,
       <<"O", "P", "E", "N", "A", "I", "_", "A", "P", "I", "_", "K", "E", "Y", "=", "k", "-", "t", "w", "o">>>>,
     <<<<"F", "O", "O">>, <<"=", "v">>,
       <<"O", "P", "E", "N", "A", "I", "_", "M", "O", "D", "E", "L", "=", "m">>>>,
     <<<<"X", "D", "G", "_", "C", "O", "N", "F", "I", "G", "_", "H", "O", "M", "E", "=",
         "/", "t", "m", "p", "/", "x">>>>}

DotEnvFiles ==
    {[exists |-> FALSE, lines |-> <<>>]}
        \cup {[exists |-> TRUE, lines |-> lines] : lines \in DotEnvLines}

SetPairs ==
    {<<"p", "r", "o", "v", "i", "d", "e", "r", "=", "o", "p", "e", "n", "a", "i">>,
     <<"p", "r", "o", "v", "i", "d", "e", "r", "=", "x">>,
     <<"o", "p", "e", "n", "a", "i", "_", "m", "o", "d", "e", "l", "=", "m">>,
     <<"b", "a", "d">>,
     <<"f", "o", "o", "=", "1">>,
     <<" ", "o", "p", "e", "n", "a", "i", "_", "a", "p", "i", "_", "k", "e", "y", " ", "=", " ", "k", "-", "s", "e", "t", " ">>}

(***************************************************************************)
(* File systems and arguments the merge is run on.                         *)
(***************************************************************************)
DefaultSeparator == <<NL, NL, "-", "-", "-", NL, NL>>

MergeFileSystems ==
    {\* "# a\nb" and "## b\n": the end-to-end scenario of the specification
     FileSystem({File(<<>>, NameA, 1, <<"#", " ", "a", NL, "b">>),
                 File(<<>>, NameB, 2, <<"#", "#", " ", "b", NL>>)}, {}),
     \* an indented header, a level-6 header and a line of '#' only
     FileSystem({File(<<>>, NameA, 2, <<" ", "#", "#", " ", "a">>),
                 File(<<DirD>>, NameB, 1,
                      <<"#", "#", "#", "#", "#", "#", " ", "e", NL, "#", "#">>)}, {}),
     \* no level-1 header, three levels, three files
     FileSystem({File(<<>>, NameA, 3, <<"#", "#", " ", "b", NL, "#", "#", "#", " ", "c">>),
                 File(<<>>, NameAB, 2, <<"t", NL>>),
                 File(<<>>, NameBUpper, 1, <<"#", "#", "#", "#", "e">>)}, {}),
     \* nothing to merge
     FileSystem({File(<<>>, NameC, 1, <<"c">>)}, {}),
     [exists |-> FALSE, dirs |-> {}, unreadable |-> {}, files |-> {}]}

MergeArgs ==
    [MergeDirectory : {"docs"},
     MergeOutputFile : {MergedMd},
     MergeRecursive : BOOLEAN,
     MergeOrder : {"filename"},
     MergeIncludePatterns : {<<>>},
     MergeExcludePatterns : {<<>>},
     MergeSeparator : {DefaultSeparator},
     MergeIncludeMeta : BOOLEAN,
     MergeGenerateTOC : BOOLEAN,
     MergeTOCDepth : Levels,
     MergeAdjustHeaders : BOOLEAN,
     MergeBaseLevel : Levels,
     MergeDryRun : BOOLEAN]

\* The directory "docs" as it is spelt in an output path, and the command
\* lines whose output file is docs/merged.md.
DocsDir == Spelt("docs")

WithinArgs ==
    [MergeDirectory : {"docs"},
     MergeOutputFile : {DocsDir \o <<"/">> \o MergedMd,
                        DocsDir \o <<"/">> \o NameA,
                        <<".", "/">> \o DocsDir \o <<"/">> \o DirD \o <<"/", "/">> \o MergedMd},
     MergeRecursive : BOOLEAN,
     MergeOrder : {"filename"},
     MergeIncludePatterns : {<<>>},
     MergeExcludePatterns : {<<>>},
     MergeSeparator : {DefaultSeparator},
     MergeIncludeMeta : BOOLEAN,
     MergeGenerateTOC : BOOLEAN,
     MergeTOCDepth : {3},
     MergeAdjustHeaders : BOOLEAN,
     MergeBaseLevel : {1, 2},
     MergeDryRun : BOOLEAN]

\* The modification time of the output file: later than every input.
OutputModTime == 9

\* What an earlier run left at the output path.
OldOutput == <<Chunk("old", <<"o", "l", "d", NL>>)>>

(***************************************************************************)
(* Specification of the header functions.                                  *)
(***************************************************************************)
HdrIdle ==
    /\ hIn = <<>>
    /\ hArg = 0
    /\ hOut = <<>>
    /\ hAgain = <<>>
    /\ hOp = "idle"

ScanIdle ==
    /\ sFs = [exists |-> FALSE, dirs |-> {}, unreadable |-> {}, files |-> {}]
    /\ scanner = [Directory |-> "", Recursive |-> FALSE,
                  IncludePatterns |-> <<>>, ExcludePatterns |-> <<>>]
    /\ sRes = [err |-> "", files |-> <<>>]
    /\ sOp = "idle"

MergeIdle ==
    /\ args = [MergeDirectory |-> ""]
    /\ disk = [exists |-> FALSE, dirs |-> {}, unreadable |-> {}, files |-> {}]
    /\ sortedFiles = <<>>
    /\ output = <<>>
    /\ outExists = FALSE
    /\ tocRead = {}
    /\ idx = 0
    /\ stdout = <<>>
    /\ err = ""
    /\ pc = "idle"
    /\ terminal = FALSE
    /\ spinnerLog = <<>>
    /\ run = 0
    /\ firstOutput = <<>>

SortIdle ==
    /\ srtIn = <<>>
    /\ srtOrder = ""
    /\ srtOut = <<>>
    /\ srtAgain = <<>>
    /\ srtOp = "idle"

\* Standard input before readDocument has looked at it.
StdinUnread == [read |-> FALSE, isTerminal |-> FALSE, lines |-> <<>>, scanErr |-> FALSE]

\* Standard input as readDocument finds it: a terminal, or a pipe or file of
\* lines (as scanner.Text() returns them) on which the scanner may fail.
Stdins ==
    {[read |-> TRUE, isTerminal |-> TRUE, lines |-> <<>>, scanErr |-> FALSE]}
    \cup {[read |-> TRUE, isTerminal |-> FALSE, lines |-> l, scanErr |-> e] :
             l \in {<<>>, << <<>> >>, << <<" ">>, <<TAB>> >>, << <<"a">> >>,
                    << <<>>, <<" ", "a">>, <<>> >>},
             e \in BOOLEAN}

\* readDocument without the check for an empty document.
readDocumentUnchecked(in) ==
    IF in.isTerminal
    THEN [content |-> <<>>, err |-> "no document provided via stdin"]
    ELSE IF in.scanErr
    THEN [content |-> <<>>, err |-> "failed to read from stdin"]
    ELSE [content |-> Join(in.lines), err |-> ""]

\* part_006:12-42.
readDocument(in) ==
    IF in.isTerminal
    THEN [content |-> <<>>, err |-> "no document provided via stdin"]
    ELSE IF in.scanErr
    THEN [content |-> <<>>, err |-> "failed to read from stdin"]
    ELSE LET content == Join(in.lines)
         IN  IF TrimSpace(content) = <<>>
             THEN [content |-> <<>>, err |-> "empty document provided"]
             ELSE [content |-> content, err |-> ""]

MainIdle ==
    /\ osArgs = <<>>
    /\ cliArgs = NilArgs
    /\ parseErr = ""
    /\ ran = <<>>
    /\ exitCode = -1
    /\ mainPc = "idle"
    /\ stdin = StdinUnread

\* Start and Stop as they act on the goroutines: on a terminal Start runs
\* one more and Stop cancels one and waits for it to end; off a terminal
\* neither does anything.  ops are the calls of one step, in order.
SpinnerGoroutines(ops, isTerminal) ==
    LET after(k) == spinning
                      + Cardinality({i \in 1..k : ops[i] = "start"})
                      - Cardinality({i \in 1..k : ops[i] = "stop"})
        most == CHOOSE n \in {after(k) : k \in 0..Len(ops)} :
                    \A k \in 0..Len(ops) : after(k) <= n
    IN  IF isTerminal
        THEN /\ spinning' = after(Len(ops))
             /\ peak' = IF most > peak THEN most ELSE peak
        ELSE UNCHANGED <<spinning, peak>>

SpinIdle ==
    /\ spinning = 0
    /\ peak = 0

ConfIdle ==
    /\ kFiles = <<>>
    /\ kFiles0 = <<>>
    /\ kDotEnv = [exists |-> FALSE, lines |-> <<>>]
    /\ kEnv = <<>>
    /\ kEnv0 = <<>>
    /\ kCfg = NoFile
    /\ kPairs = <<>>
    /\ kExit = -1
    /\ kOp = "idle"

TextIdle ==
    /\ tIn = <<>>
    /\ tOut = <<>>
    /\ tAgain = <<>>
    /\ tOp = "idle"

HdrInit ==
    /\ hIn \in Contents
    /\ hArg = 0
    /\ hOut = <<>>
    /\ hAgain = <<>>
    /\ hOp = "none"
    /\ ScanIdle
    /\ MergeIdle
    /\ SortIdle
    /\ MainIdle
    /\ TextIdle
    /\ ConfIdle
    /\ SpinIdle

CallAdjustHeaderLevels ==
    /\ hOp = "none"
    /\ \E baseLevel \in Levels :
        /\ hArg' = baseLevel
        /\ hOut' = adjustHeaderLevels(hIn, baseLevel)
    /\ hOp' = "adjust"
    /\ UNCHANGED <<hIn, hAgain, svars, mvars, qvars, cvars, tvars, kvars, gvars>>

CallExtractHeaders ==
    /\ hOp = "none"
    /\ \E maxDepth \in Levels :
        /\ hArg' = maxDepth
        /\ hOut' = extractHeaders(hIn, maxDepth)
    /\ hOp' = "extract"
    /\ UNCHANGED <<hIn, hAgain, svars, mvars, qvars, cvars, tvars, kvars, gvars>>

\* adjustHeaderLevels applied to what it returned.
CallAdjustHeaderLevelsAgain ==
    /\ hOp = "adjust"
    /\ hAgain' = adjustHeaderLevels(hOut, hArg)
    /\ hOp' = "adjusted twice"
    /\ UNCHANGED <<hIn, hArg, hOut, svars, mvars, qvars, cvars, tvars, kvars, gvars>>

HdrNext ==
    \/ CallAdjustHeaderLevels
    \/ CallExtractHeaders
    \/ CallAdjustHeaderLevelsAgain

SpecHdr == HdrInit /\ [][HdrNext]_vars

(***************************************************************************)
(* Specification of the text functions: the TOC anchor, the document       *)
(* title and the API key mask, each applied to one string.                 *)
(***************************************************************************)
TextInit ==
    /\ tIn \in Texts
    /\ tOut = <<>>
    /\ tAgain = <<>>
    /\ tOp = "none"
    /\ HdrIdle
    /\ ScanIdle
    /\ MergeIdle
    /\ SortIdle
    /\ MainIdle
    /\ ConfIdle
    /\ SpinIdle

CallLink ==
    /\ tOp = "none"
    /\ tOut' = Link(tIn)
    /\ tOp' = "link"
    /\ UNCHANGED <<tIn, tAgain, hvars, svars, mvars, qvars, cvars, kvars, gvars>>

\* The anchor derived from an anchor.
CallLinkAgain ==
    /\ tOp = "link"
    /\ tAgain' = Link(tOut)
    /\ tOp' = "linked twice"
    /\ UNCHANGED <<tIn, tOut, hvars, svars, mvars, qvars, cvars, kvars, gvars>>

CallGenerateDocumentTitle ==
    /\ tOp = "none"
    /\ tOut' = generateDocumentTitle(tIn)
    /\ tOp' = "title"
    /\ UNCHANGED <<tIn, tAgain, hvars, svars, mvars, qvars, cvars, kvars, gvars>>

CallMaskAPIKey ==
    /\ tOp = "none"
    /\ tOut' = MaskAPIKey(Utf8(tIn))
    /\ tOp' = "mask"
    /\ UNCHANGED <<tIn, tAgain, hvars, svars, mvars, qvars, cvars, kvars, gvars>>

TextNext ==
    \/ CallLink
    \/ CallLinkAgain
    \/ CallGenerateDocumentTitle
    \/ CallMaskAPIKey

SpecText == TextInit /\ [][TextNext]_vars

(***************************************************************************)
(* Specification of the configuration: one process that loads the          *)
(* configuration, or runs "doc --set" with some key=value arguments.       *)
(***************************************************************************)
ConfInit ==
    /\ kFiles \in ConfigFileSets
    /\ kFiles0 = kFiles
    /\ kDotEnv \in DotEnvFiles
    /\ kEnv \in Environments
    /\ kEnv0 = kEnv
    /\ kCfg = NoFile
    /\ kPairs = <<>>
    /\ kExit = -1
    /\ kOp = "none"
    /\ HdrIdle
    /\ ScanIdle
    /\ MergeIdle
    /\ SortIdle
    /\ MainIdle
    /\ TextIdle
    /\ SpinIdle

CallLoad ==
    /\ kOp = "none"
    /\ kCfg' = Load(kFiles, kDotEnv, kEnv).config
    /\ kEnv' = Load(kFiles, kDotEnv, kEnv).env
    /\ kOp' = "loaded"
    /\ UNCHANGED <<kFiles, kFiles0, kDotEnv, kEnv0, kPairs, kExit,
                   hvars, svars, mvars, qvars, cvars, tvars, gvars>>

\* setConfigValues and the os.Exit of main after it.
CallSetConfigValues ==
    /\ kOp = "none"
    /\ \E keyValuePairs \in SeqsUpTo(SetPairs, MaxPairs) \ {<<>>} :
        \E fault \in SaveFaults(ConfigToSave(kFiles, kDotEnv, kEnv, keyValuePairs)) :
            LET res == setConfigValues(kFiles, kDotEnv, kEnv, keyValuePairs, fault)
            IN  /\ kPairs' = keyValuePairs
                /\ kEnv' = res.env
                /\ kCfg' = res.config
                /\ kFiles' = res.files
                /\ kExit' = res.exit
    /\ kOp' = "set"
    /\ UNCHANGED <<kFiles0, kDotEnv, kEnv0, hvars, svars, mvars, qvars, cvars, tvars, gvars>>

\* initConfigFile and the os.Exit of main after it.
CallInitConfigFile ==
    /\ kOp = "none"
    /\ \E fault \in SaveFaults(DefaultConfig) :
        LET res == initConfigFile(kFiles, kEnv, fault)
        IN  /\ kFiles' = res.files
            /\ kExit' = res.exit
    /\ kOp' = "init"
    /\ UNCHANGED <<kFiles0, kDotEnv, kEnv, kEnv0, kCfg, kPairs,
                   hvars, svars, mvars, qvars, cvars, tvars, gvars>>

ConfNext == CallLoad \/ CallSetConfigValues \/ CallInitConfigFile

SpecConf == ConfInit /\ [][ConfNext]_vars

(***************************************************************************)
(* Specification of the directory scan.                                    *)
(***************************************************************************)
ScanInit ==
    /\ sFs \in ScanFileSystems
    /\ scanner \in Scanners
    /\ sRes = [err |-> "", files |-> <<>>]
    /\ sOp = "none"
    /\ HdrIdle
    /\ MergeIdle
    /\ SortIdle
    /\ MainIdle
    /\ TextIdle
    /\ ConfIdle
    /\ SpinIdle

CallScanMarkdownFiles ==
    /\ sOp = "none"
    /\ sRes' = ScanMarkdownFiles(sFs, scanner)
    /\ sOp' = "scanned"
    /\ UNCHANGED <<sFs, scanner, hvars, mvars, qvars, cvars, tvars, kvars, gvars>>

ScanNext == CallScanMarkdownFiles

SpecScan == ScanInit /\ [][ScanNext]_vars

(***************************************************************************)
(* Specification of SortMarkdownFiles: a list is sorted, and the result is *)
(* sorted again with the same order.                                       *)
(***************************************************************************)
SortInit ==
    /\ srtIn \in SeqsUpTo(SortRecords, MaxFiles)
    /\ srtOrder \in SortOrders
    /\ srtOut = <<>>
    /\ srtAgain = <<>>
    /\ srtOp = "none"
    /\ HdrIdle
    /\ ScanIdle
    /\ MergeIdle
    /\ MainIdle
    /\ TextIdle
    /\ ConfIdle
    /\ SpinIdle

CallSortMarkdownFiles ==
    /\ srtOp = "none"
    /\ srtOut' = SortMarkdownFiles(srtIn, srtOrder)
    /\ srtOp' = "sorted"
    /\ UNCHANGED <<srtIn, srtOrder, srtAgain, hvars, svars, mvars, cvars, tvars, kvars, gvars>>

CallSortMarkdownFilesAgain ==
    /\ srtOp = "sorted"
    /\ srtAgain' = SortMarkdownFiles(srtOut, srtOrder)
    /\ srtOp' = "resorted"
    /\ UNCHANGED <<srtIn, srtOrder, srtOut, hvars, svars, mvars, cvars, tvars, kvars, gvars>>

SortNext == CallSortMarkdownFiles \/ CallSortMarkdownFilesAgain

SpecSort == SortInit /\ [][SortNext]_vars

(***************************************************************************)
(* Specification of main: parseArgs, the commands that end the process,    *)
(* then provider, language, document and translation.  The configuration  *)
(* commands act on the config file, .env and the environment; stdin is     *)
(* what readDocument finds; the provider is outside the model: its         *)
(* creation and its Translate succeed or fail.                             *)
(***************************************************************************)
\* The config files, .env and environment main starts with.
MainStarts ==
    {[files |-> <<>>, dotEnv |-> [exists |-> FALSE, lines |-> <<>>], env |-> <<EnvHome>>],
     [files |-> <<<<GetConfigPath(<<EnvHome>>),
                    [ZeroConfig EXCEPT !.ProviderType = <<"o", "p", "e", "n", "a", "i">>,
                                       !.Verbose = TRUE]>>>>,
      dotEnv |-> [exists |-> TRUE,
                  lines |-> <<<<"X", "D", "G", "_", "C", "O", "N", "F", "I", "G", "_",
                                "H", "O", "M", "E", "=", "/", "t", "m", "p", "/", "x">>>>],
      env |-> <<EnvHome, EnvOpenAIKey>>],
     [files |-> <<>>, dotEnv |-> [exists |-> FALSE, lines |-> <<>>],
      env |-> <<EnvProvider>>]}

MainInit ==
    /\ osArgs \in CommandLines
    /\ cliArgs = NilArgs
    /\ parseErr = ""
    /\ ran = <<>>
    /\ exitCode = -1
    /\ mainPc = "start"
    /\ stdin = StdinUnread
    /\ HdrIdle
    /\ ScanIdle
    /\ MergeIdle
    /\ SortIdle
    /\ TextIdle
    /\ \E start \in MainStarts :
            /\ kFiles = start.files
            /\ kDotEnv = start.dotEnv
            /\ kEnv = start.env
    /\ kFiles0 = kFiles
    /\ kEnv0 = kEnv
    /\ kCfg = NoFile
    /\ kPairs = <<>>
    /\ kExit = -1
    /\ kOp = "none"
    /\ SpinIdle

\* os.Exit(code), or the return of main for code 0.
Exit(code) ==
    /\ mainPc' = "exited"
    /\ exitCode' = code

\* main.go:13-17.
MainParseArgs ==
    /\ mainPc = "start"
    /\ LET res == parseArgs(osArgs)
       IN  CASE res.outcome = "ok" ->
                    /\ cliArgs' = res.cli
                    /\ ran' = <<"parseArgs">>
                    /\ mainPc' = "commands"
                    /\ UNCHANGED <<parseErr, exitCode>>
             [] res.outcome = "error" ->
                    /\ parseErr' = res.err
                    /\ ran' = <<"parseArgs", "showUsage">>
                    /\ Exit(1)
                    /\ UNCHANGED cliArgs
             [] res.outcome = "exit" ->
                    /\ ran' = <<"parseArgs", "parseIntOrError">>
                    /\ Exit(1)
                    /\ UNCHANGED <<cliArgs, parseErr>>
    /\ UNCHANGED <<osArgs, stdin, hvars, svars, mvars, qvars, tvars, kvars, gvars>>

\* main.go:22-55: the config and list commands, else LoadConfig.  The
\* configuration commands read and write the config file and the
\* environment as config.Load, initConfigFile and setConfigValues do.
MainCommands ==
    /\ mainPc = "commands"
    /\ IF cliArgs.ShowConfig
       THEN /\ ran' = Append(ran, "showCurrentConfig")
            /\ Exit(0)
            /\ kCfg' = Load(kFiles, kDotEnv, kEnv).config
            /\ kEnv' = Load(kFiles, kDotEnv, kEnv).env
            /\ kOp' = "loaded"
            /\ UNCHANGED <<kFiles, kPairs, kExit>>
       ELSE IF cliArgs.InitConfig
       THEN /\ ran' = Append(ran, "initConfigFile")
            /\ \E fault \in SaveFaults(DefaultConfig) :
                LET res == initConfigFile(kFiles, kEnv, fault)
                IN  /\ kFiles' = res.files
                    /\ kExit' = res.exit
                    /\ Exit(res.exit)
            /\ kOp' = "init"
            /\ UNCHANGED <<kEnv, kCfg, kPairs>>
       ELSE IF Len(cliArgs.SetConfig) > 0
       THEN /\ ran' = Append(ran, "setConfigValues")
            /\ \E fault \in SaveFaults(ConfigToSave(kFiles, kDotEnv, kEnv, cliArgs.SetConfig)) :
                LET res == setConfigValues(kFiles, kDotEnv, kEnv, cliArgs.SetConfig, fault)
                IN  /\ kFiles' = res.files
                    /\ kEnv' = res.env
                    /\ kCfg' = res.config
                    /\ kExit' = res.exit
                    /\ Exit(res.exit)
            /\ kPairs' = cliArgs.SetConfig
            /\ kOp' = "set"
       ELSE IF cliArgs.ShowList
       THEN /\ ran' = Append(ran, "showSupportedLanguages")
            /\ Exit(0)
            /\ UNCHANGED <<kFiles, kEnv, kCfg, kPairs, kExit, kOp>>
       ELSE IF cliArgs.ShowListModels
       THEN /\ ran' = Append(ran, IF cliArgs.ListModelsProvider # <<>>
                                  THEN "showModelsForProvider" ELSE "showAllModels")
            /\ Exit(0)
            /\ UNCHANGED <<kFiles, kEnv, kCfg, kPairs, kExit, kOp>>
       ELSE /\ ran' = Append(ran, "LoadConfig")
            /\ mainPc' = "provider"
            /\ kCfg' = [Load(kFiles, kDotEnv, kEnv).config EXCEPT !.Verbose = cliArgs.Verbose]
            /\ kEnv' = Load(kFiles, kDotEnv, kEnv).env
            /\ kOp' = "loaded"
            /\ UNCHANGED <<exitCode, kFiles, kPairs, kExit>>
    /\ UNCHANGED <<osArgs, cliArgs, parseErr, stdin, kFiles0, kDotEnv, kEnv0,
                   hvars, svars, mvars, qvars, tvars, gvars>>

\* main.go:64-72.
MainNewLLMProvider ==
    /\ mainPc = "provider"
    /\ \E created \in BOOLEAN :
        IF created
        THEN /\ ran' = Append(ran, "NewLLMProvider")
             /\ mainPc' = "language"
             /\ UNCHANGED exitCode
        ELSE /\ ran' = ran \o <<"NewLLMProvider", "showProviderHelp">>
             /\ Exit(1)
    /\ UNCHANGED <<osArgs, cliArgs, parseErr, stdin, hvars, svars, mvars, qvars, tvars, kvars, gvars>>

\* main.go:74-95.
MainValidateLanguage ==
    /\ mainPc = "language"
    /\ ran' = Append(ran, "validateLanguageCodeWithMap")
    /\ IF validateLanguageCodeWithMap(cliArgs.TargetLanguage, supportedLanguages)
       THEN mainPc' = "document" /\ UNCHANGED exitCode
       ELSE Exit(1)
    /\ UNCHANGED <<osArgs, cliArgs, parseErr, stdin, hvars, svars, mvars, qvars, tvars, kvars, gvars>>

\* main.go:97-102.
MainReadDocument ==
    /\ mainPc = "document"
    /\ ran' = Append(ran, "readDocument")
    /\ \E in \in Stdins :
        /\ stdin' = in
        /\ IF readDocument(in).err = ""
           THEN mainPc' = "translation" /\ UNCHANGED exitCode
           ELSE Exit(1)
    /\ UNCHANGED <<osArgs, cliArgs, parseErr, hvars, svars, mvars, qvars, tvars, kvars, gvars>>

\* performTranslation without the spinner.Stop of its error return.
StopAfterTranslateOnSuccess(outcome) ==
    CASE outcome = "error" -> <<>>
      [] outcome = "status" -> <<"stop">>
      [] outcome = "success" -> <<"stop">>

\* spinner.Stop of performTranslation on the three ways provider.Translate
\* can end: an error, a response whose status is not "success", success.
StopAfterTranslate(outcome) ==
    CASE outcome = "error" -> <<"stop">>
      [] outcome = "status" -> <<"stop">>
      [] outcome = "success" -> <<"stop">>

\* main.go:105 and performTranslation, part_006:45-57: spinner.Start, where
\* isTerminal is asked, and the call of provider.Translate, which is under
\* way afterwards.
MainTranslate ==
    /\ mainPc = "translation"
    /\ ran' = ran \o <<"performTranslation", "Translate">>
    /\ mainPc' = "translating"
    /\ \E isTerminal \in BOOLEAN :
        /\ terminal' = isTerminal
        /\ SpinnerGoroutines(<<"start">>, isTerminal)
    /\ UNCHANGED <<osArgs, cliArgs, parseErr, exitCode, stdin,
                   args, disk, sortedFiles, output, outExists, tocRead, idx, stdout, err, pc,
                   spinnerLog, run, firstOutput, hvars, svars, qvars, tvars, kvars>>

\* performTranslation, part_006:57-70, and main.go:106-112: Translate has
\* returned, the spinner is stopped and main ends.
MainTranslateReturn ==
    /\ mainPc = "translating"
    /\ \E outcome \in {"error", "status", "success"} :
        /\ Exit(IF outcome = "success" THEN 0 ELSE 1)
        /\ SpinnerGoroutines(StopAfterTranslate(outcome), terminal)
    /\ UNCHANGED <<osArgs, cliArgs, parseErr, ran, stdin,
                   hvars, svars, mvars, qvars, tvars, kvars>>

MainNext ==
    \/ MainParseArgs
    \/ MainCommands
    \/ MainNewLLMProvider
    \/ MainValidateLanguage
    \/ MainReadDocument
    \/ MainTranslate
    \/ MainTranslateReturn

SpecMain == MainInit /\ [][MainNext]_vars

(***************************************************************************)
(* The output path among the files of the directory.  The operating system *)
(* resolves a path name by name: "", "." and ".." are not names of their   *)
(* own, so docs/merged.md, ./docs/merged.md and docs//merged.md are one    *)
(* file.  The working directory is outside the model, and with it every    *)
(* absolute path and every path that leaves it through "..".               *)
(***************************************************************************)
\* Where cliArgs.MergeOutputFile lies: inside the merged directory, in the
\* directory dir below it under the name name, or elsewhere.
OutputPlace(a) ==
    LET names == PathNames(Clean(a.MergeOutputFile))
        inside == Len(names) >= 2 /\ names[1] = Spelt(a.MergeDirectory)
    IN  IF inside
        THEN [inside |-> TRUE, dir |-> SubSeq(names, 2, Len(names) - 1),
              name |-> names[Len(names)]]
        ELSE [inside |-> FALSE, dir |-> <<>>, name |-> <<>>]

\* The files of fsys at the output path: one at most.
AtOutputPlace(a, fsys) ==
    {f \in fsys.files :
        /\ OutputPlace(a).inside
        /\ f.dir = OutputPlace(a).dir /\ f.name = OutputPlace(a).name}

\* os.Create can make the file: inside the merged directory its directory
\* has to be there and the path must not be that of a directory.
Creatable(a, fsys) ==
    OutputPlace(a).inside =>
        /\ fsys.exists
        /\ OutputPlace(a).dir = <<>> \/ OutputPlace(a).dir \in fsys.dirs
        /\ Append(OutputPlace(a).dir, OutputPlace(a).name) \notin fsys.dirs

\* The states a run can start in on the file system fsys.  The file at an
\* output path inside the merged directory, if there is one, is kept in
\* output and outExists with its modification time, the other files in
\* disk; at a path outside there may be a file or none.
Starts(a, fsys) ==
    IF OutputPlace(a).inside
    THEN IF AtOutputPlace(a, fsys) # {}
         THEN {[disk |-> [fsys EXCEPT !.files = @ \ AtOutputPlace(a, fsys)],
                outExists |-> TRUE,
                output |-> <<[kind |-> "old", data |-> f.content, mtime |-> f.mtime]>>] :
                    f \in AtOutputPlace(a, fsys)}
         ELSE {[disk |-> fsys, outExists |-> FALSE, output |-> <<>>]}
    ELSE {[disk |-> fsys, outExists |-> e, output |-> IF e THEN OldOutput ELSE <<>>] :
                e \in BOOLEAN}

(***************************************************************************)
(* Specification of the merge command: runMerge, runDryMode, mergeFiles.   *)
(***************************************************************************)
Init ==
    /\ args \in MergeArgs
    /\ \E fsys \in MergeFileSystems :
        \E start \in Starts(args, fsys) :
            /\ disk = start.disk
            /\ outExists = start.outExists
            /\ output = start.output
    /\ sortedFiles = <<>>
    /\ tocRead = {}
    /\ idx = 0
    /\ stdout = <<>>
    /\ err = ""
    /\ pc = "start"
    /\ terminal \in BOOLEAN
    /\ spinnerLog = <<>>
    /\ run = 1
    /\ firstOutput = <<>>
    /\ HdrIdle
    /\ ScanIdle
    /\ SortIdle
    /\ MainIdle
    /\ TextIdle
    /\ ConfIdle
    /\ SpinIdle

Fail(message) ==
    /\ pc' = "failed"
    /\ err' = message

\* A failed write that does not end the step: the writes after it are made.
WriteAllGoesOn(writes, next, message) ==
    \E k \in 0..Len(writes) :
        /\ output' = output \o SubSeq(writes, 1, k) \o SubSeq(writes, k + 2, Len(writes))
        /\ IF k < Len(writes)
           THEN Fail(message)
           ELSE pc' = next /\ err' = ""

\* The writes of one step: the first k succeed; if one fails the step
\* returns its error, else it goes on to next.
WriteAll(writes, next, message) ==
    \E k \in 0..Len(writes) :
        /\ output' = output \o SubSeq(writes, 1, k)
        /\ IF k < Len(writes)
           THEN Fail(message)
           ELSE pc' = next /\ err' = ""

\* ui.go: what a spinner writes to stderr, line by line.  Start without a
\* terminal prints the message and leaves cancel nil; Stop returns at once
\* when cancel is nil and prints the final message otherwise.  The frames
\* of the animation, which the next write overwrites, are left out.
SpinnerStart(message) ==
    IF ~terminal THEN <<[tag |-> "INFO", message |-> message]>> ELSE <<>>

SpinnerStop(finalMessage) ==
    IF terminal THEN <<[tag |-> "DONE", message |-> finalMessage]>> ELSE <<>>

\* An error path without its spinner.Stop.
StopOnErrorForgotten == <<>>

\* spinner.Stop("Merge failed") before an error is returned, as a call.
StopOnError == IF pc' = "failed" THEN <<"stop">> ELSE <<>>

\* spinner.Stop("Merge failed") before an error is returned.
StopIfFailed == IF pc' = "failed" THEN SpinnerStop([text |-> "Merge failed"]) ELSE <<>>

\* The directory as the process finds it: the files of disk and, where the
\* output path names a file of the directory itself, the output file with
\* the bytes out it holds.
DiskNow(out) ==
    IF outExists /\ disk.exists /\ OutputPlace(args).inside
    THEN [disk EXCEPT !.files = @ \cup {File(OutputPlace(args).dir, OutputPlace(args).name,
                                             IF out # <<>> /\ out[1].kind = "old"
                                             THEN out[1].mtime ELSE OutputModTime,
                                             Bytes(out))}]
    ELSE disk

\* "if len(files) == 0".
EmptyScanIgnored(files) == FALSE

EmptyScan(files) == Len(files) = 0

\* "if cliArgs.MergeDryRun { return runDryMode(...) }; return mergeFiles(...)"
AfterSortAlwaysMerges(a) == "create"

AfterSort(a) == IF a.MergeDryRun THEN "dry" ELSE "create"

\* Where mergeFiles goes when the header and the table are written: the
\* loop over the files, which an empty list never enters.
LoopStart == IF Len(sortedFiles) >= 1 THEN "merge" ELSE "stat"

\* runMerge up to the choice between dry run and merge.
RunMergeScan ==
    /\ pc = "start"
    /\ LET sc == [Directory |-> args.MergeDirectory,
                  Recursive |-> args.MergeRecursive,
                  IncludePatterns |-> args.MergeIncludePatterns,
                  ExcludePatterns |-> args.MergeExcludePatterns]
           res == ScanMarkdownFiles(DiskNow(output), sc)
       IN  IF res.err # ""
           THEN Fail("failed to scan directory") /\ UNCHANGED sortedFiles
           ELSE IF EmptyScan(res.files)
           THEN Fail("no markdown files found in directory") /\ UNCHANGED sortedFiles
           ELSE /\ sortedFiles' = SortMarkdownFiles(res.files, args.MergeOrder)
                /\ pc' = AfterSort(args)
                /\ UNCHANGED err
    /\ UNCHANGED <<args, disk, run, firstOutput, output, outExists, tocRead, idx, stdout, terminal,
                   spinnerLog, hvars, svars, qvars, cvars, tvars, kvars, gvars>>

RunDryMode ==
    /\ pc = "dry"
    /\ stdout' = DryRunLines(args, sortedFiles)
    /\ pc' = "done"
    /\ UNCHANGED <<args, disk, run, firstOutput, sortedFiles, output, outExists, tocRead, idx, err,
                   terminal, spinnerLog, hvars, svars, qvars, cvars, tvars, kvars, gvars>>

\* os.Create: the file is created or truncated, or the call fails.
CreateOutput ==
    /\ pc = "create"
    /\ \E created \in IF Creatable(args, disk) THEN BOOLEAN ELSE {FALSE} :
        IF created
        THEN /\ output' = <<>>
             /\ outExists' = TRUE
             /\ pc' = "header"
             /\ spinnerLog' = spinnerLog
                    \o SpinnerStart([text |-> "Merging files", done |-> 0,
                                     of |-> Len(sortedFiles)])
             /\ UNCHANGED err
        ELSE /\ Fail("failed to create output file")
             /\ UNCHANGED <<output, outExists, spinnerLog>>
    /\ SpinnerGoroutines(IF pc' = "header" THEN <<"start">> ELSE <<>>, terminal)
    /\ UNCHANGED <<args, disk, run, firstOutput, sortedFiles, tocRead, idx, stdout, terminal,
                   hvars, svars, qvars, cvars, tvars, kvars>>

WriteDocumentHeader ==
    /\ pc = "header"
    /\ WriteAll(DocumentHeaderWrites(args, sortedFiles),
                IF args.MergeGenerateTOC THEN "toc" ELSE LoopStart,
                "failed to write document header")
    /\ idx' = 1
    /\ spinnerLog' = spinnerLog \o StopIfFailed
    /\ SpinnerGoroutines(StopOnError, terminal)
    /\ UNCHANGED <<args, disk, run, firstOutput, sortedFiles, outExists, tocRead, stdout, terminal,
                   hvars, svars, qvars, cvars, tvars, kvars>>

\* writeTOC: the heading.
WriteTOCHeading ==
    /\ pc = "toc"
    /\ WriteAll(<<Chunk("tocHeading", TOCHeading)>>, "tocfile",
                "failed to write table of contents")
    /\ idx' = 1
    /\ spinnerLog' = spinnerLog \o StopIfFailed
    /\ SpinnerGoroutines(StopOnError, terminal)
    /\ UNCHANGED <<args, disk, run, firstOutput, sortedFiles, outExists, tocRead, stdout, terminal,
                   hvars, svars, qvars, cvars, tvars, kvars>>

\* "if err != nil { continue }" of writeTOC, and the same returning the
\* error as mergeFile does.
TOCReadErrorReturned == [pc |-> "failed", err |-> "failed to write table of contents"]

TOCReadError == [pc |-> "tocfile", err |-> ""]

\* "failed to merge file %s: %w" around "failed to read file: %w".
ReadFailed == "failed to merge file: failed to read file"

\* writeTOC: one iteration of the loop over the files.  A file that cannot
\* be read is passed over; a negative indentation panics.
WriteTOCFile ==
    /\ pc = "tocfile"
    /\ idx <= Len(sortedFiles)
    /\ \E readable \in BOOLEAN :
        IF ~readable
        THEN /\ idx' = idx + 1
             /\ pc' = TOCReadError.pc
             /\ err' = TOCReadError.err
             /\ UNCHANGED <<output, tocRead>>
        ELSE LET content == ReadFile(DiskNow(output), args.MergeDirectory, sortedFiles[idx].Path)
                 toc == TOCEntries(extractHeaders(content, args.MergeTOCDepth), args)
             IN  /\ WriteAll(toc.writes,
                             IF toc.panic THEN "panic" ELSE "tocfile",
                             "failed to write table of contents")
                 /\ tocRead' = tocRead \cup {idx}
                 /\ idx' = idx + 1
    /\ spinnerLog' = spinnerLog \o StopIfFailed
    /\ SpinnerGoroutines(StopOnError, terminal)
    /\ UNCHANGED <<args, disk, run, firstOutput, sortedFiles, outExists, stdout, terminal,
                   hvars, svars, qvars, cvars, tvars, kvars>>

\* writeTOC: the blank line that ends the table.
WriteTOCEnd ==
    /\ pc = "tocfile"
    /\ idx > Len(sortedFiles)
    /\ WriteAll(<<Chunk("tocEnd", <<NL>>)>>, LoopStart,
                "failed to write table of contents")
    /\ idx' = 1
    /\ spinnerLog' = spinnerLog \o StopIfFailed
    /\ SpinnerGoroutines(StopOnError, terminal)
    /\ UNCHANGED <<args, disk, run, firstOutput, sortedFiles, outExists, tocRead, stdout, terminal,
                   hvars, svars, qvars, cvars, tvars, kvars>>

\* Where the loop of mergeFiles goes after file i and its separator.
AfterFile(i) == IF i < Len(sortedFiles) THEN "merge" ELSE "stat"

\* mergeFile on sortedFiles[idx]: the source comment is written before the
\* file is read, so that the output file read as an input ends with it.
MergeFile ==
    /\ pc = "merge"
    /\ LET file == sortedFiles[idx]
           comment == IF args.MergeIncludeMeta
                      THEN <<Chunk("source", SourceComment(file))>>
                      ELSE <<>>
           next == IF SeparatorAfter(idx, Len(sortedFiles))
                   THEN "separator"
                   ELSE AfterFile(idx)
       IN  \E readable \in BOOLEAN :
            IF ~readable
            THEN \E k \in 0..Len(comment) :
                    /\ output' = output \o SubSeq(comment, 1, k)
                    /\ Fail(IF k < Len(comment) THEN "failed to merge file" ELSE ReadFailed)
                    /\ UNCHANGED idx
            ELSE /\ WriteAll(comment
                               \o MergeFileBody(ReadFile(DiskNow(output \o comment),
                                                         args.MergeDirectory, file.Path),
                                                args),
                             next, "failed to merge file")
                 /\ idx' = IF next = "merge" THEN idx + 1 ELSE idx
    /\ spinnerLog' = spinnerLog
            \o SpinnerStop([text |-> ""])
            \o SpinnerStart([text |-> "Processing files", done |-> idx,
                             of |-> Len(sortedFiles), name |-> sortedFiles[idx].Name])
            \o StopIfFailed
    /\ SpinnerGoroutines(<<"stop", "start">> \o StopOnError, terminal)
    /\ UNCHANGED <<args, disk, run, firstOutput, sortedFiles, outExists, tocRead, stdout, terminal,
                   hvars, svars, qvars, cvars, tvars, kvars>>

WriteSeparator ==
    /\ pc = "separator"
    /\ WriteAll(<<Chunk("separator", args.MergeSeparator)>>, AfterFile(idx),
                "failed to write separator")
    /\ idx' = IF pc' = "failed" THEN idx ELSE idx + 1
    /\ spinnerLog' = spinnerLog \o StopIfFailed
    /\ SpinnerGoroutines(StopOnError, terminal)
    /\ UNCHANGED <<args, disk, run, firstOutput, sortedFiles, outExists, tocRead, stdout, terminal,
                   hvars, svars, qvars, cvars, tvars, kvars>>

\* os.Stat of the output file and the return of mergeFiles.
FinishMerge ==
    /\ pc = "stat"
    /\ \E statOk \in BOOLEAN :
        IF statOk
        THEN /\ pc' = "done"
             /\ spinnerLog' = spinnerLog
                    \o SpinnerStop([text |-> "Merge completed",
                                    path |-> args.MergeOutputFile,
                                    size |-> formatFileSize(SizeOf(Bytes(output)))])
             /\ UNCHANGED err
        ELSE /\ Fail("failed to get output file stats")
             /\ spinnerLog' = spinnerLog \o SpinnerStop([text |-> "Merge failed"])
    /\ SpinnerGoroutines(<<"stop">>, terminal)
    /\ UNCHANGED <<args, disk, run, firstOutput, sortedFiles, output, outExists, tocRead, idx, stdout,
                   terminal, hvars, svars, qvars, cvars, tvars, kvars>>

Next ==
    \/ RunMergeScan
    \/ RunDryMode
    \/ CreateOutput
    \/ WriteDocumentHeader
    \/ WriteTOCHeading
    \/ WriteTOCFile
    \/ WriteTOCEnd
    \/ MergeFile
    \/ WriteSeparator
    \/ FinishMerge

Spec == Init /\ [][Next]_vars

(***************************************************************************)
(* Specification of the merge command run twice with the output file in    *)
(* the directory it merges: "doc merge docs -o docs/merged.md", and the     *)
(* same command again once the first run has ended.                        *)
(***************************************************************************)
RerunInit ==
    /\ args \in WithinArgs
    /\ \E fsys \in MergeFileSystems :
        \E start \in Starts(args, fsys) :
            /\ disk = start.disk
            /\ outExists = start.outExists
            /\ output = start.output
    /\ sortedFiles = <<>>
    /\ tocRead = {}
    /\ idx = 0
    /\ stdout = <<>>
    /\ err = ""
    /\ pc = "start"
    /\ terminal \in BOOLEAN
    /\ spinnerLog = <<>>
    /\ run = 1
    /\ firstOutput = <<>>
    /\ HdrIdle
    /\ ScanIdle
    /\ SortIdle
    /\ MainIdle
    /\ TextIdle
    /\ ConfIdle
    /\ SpinIdle

\* The process has ended without an error and the command is started again.
RunAgain ==
    /\ pc = "done"
    /\ run = 1
    /\ run' = 2
    /\ firstOutput' = output
    /\ pc' = "start"
    /\ sortedFiles' = <<>>
    /\ tocRead' = {}
    /\ idx' = 0
    /\ stdout' = <<>>
    /\ spinnerLog' = <<>>
    /\ UNCHANGED <<args, disk, output, outExists, err, terminal,
                   hvars, svars, qvars, cvars, tvars, kvars, gvars>>

RerunNext == Next \/ RunAgain

SpecRerun == RerunInit /\ [][RerunNext]_vars

(***************************************************************************)
(* Specification of the spinners: a process that runs the merge, whose     *)
(* spinners mergeFiles starts, or main, whose spinner performTranslation   *)
(* starts.                                                                 *)
(***************************************************************************)
SpinnerInit == Init \/ MainInit

SpinnerNext == Next \/ MainNext

SpecSpinner == SpinnerInit /\ [][SpinnerNext]_vars

(***************************************************************************)
(* Vocabulary of the properties of the header functions, stated from the   *)
(* positions of the characters and not by the loops of the code.           *)
(***************************************************************************)
MaxOf(S) == CHOOSE x \in S : \A y \in S : y <= x
MinOf(S) == CHOOSE x \in S : \A y \in S : x <= y

\* s without its leading and trailing white space.
Strip(s) ==
    LET ink == {i \in 1..Len(s) : ~IsSpace(s[i])}
    IN  IF ink = {} THEN <<>> ELSE SubSeq(s, MinOf(ink), MaxOf(ink))

\* Length of the run of '#' at the start of s.
RunLen(s) == MaxOf({k \in 0..Len(s) : \A j \in 1..k : s[j] = "#"})

AfterRun(s) == SubSeq(s, RunLen(s) + 1, Len(s))

Min6(n) == IF n < 6 THEN n ELSE 6

Hashes(n) == [j \in 1..n |-> "#"]

\* A header line in the sense of the specification: its trimmed content
\* begins with a run of '#'.
IsHeaderLine(line) == RunLen(Strip(line)) >= 1

\* C2 (as stated): every line whose trimmed content begins with a '#' run,
\* leading spaces or tabs included, is rewritten to min(6, baseLevel + L - 1)
\* '#' characters, one space and the trimmed text after the run.
C2_RewritesEveryHeaderLine ==
    hOp = "adjust" =>
        LET in == Split(hIn)
            out == Split(hOut)
        IN  /\ Len(out) = Len(in)
            /\ \A i \in 1..Len(in) :
                IsHeaderLine(in[i]) =>
                    out[i] = Hashes(Min6(hArg + RunLen(Strip(in[i])) - 1))
                                \o <<" ">> \o Strip(AfterRun(Strip(in[i])))

\* C3: a line that starts with a run of L >= 1 '#' is emitted with exactly
\* min(6, baseLevel + L - 1) '#', never more than 6, and a line whose level
\* is 0 (no '#' run at its start) is left as it is.
C3_LevelClamped ==
    hOp = "adjust" =>
        LET in == Split(hIn)
            out == Split(hOut)
        IN  /\ Len(out) = Len(in)
            /\ \A i \in 1..Len(in) :
                IF RunLen(in[i]) >= 1
                THEN /\ RunLen(out[i]) = Min6(hArg + RunLen(in[i]) - 1)
                     /\ RunLen(out[i]) <= 6
                ELSE out[i] = in[i]

\* A level-6 header rewritten with base level 2 stays at level 6.
C3_Witness ==
    /\ hOp = "adjust" /\ hArg = 2
    /\ RunLen(hIn) = 6 /\ RunLen(hOut) = 6

\* The entries the specification expects of a list of lines.
RECURSIVE ExpectedHeaders(_, _)
ExpectedHeaders(lines, maxDepth) ==
    IF lines = <<>> THEN <<>>
    ELSE LET t == Strip(Head(lines))
             here == IF RunLen(t) >= 1 /\ RunLen(t) <= maxDepth
                     THEN <<[Level |-> RunLen(t), Text |-> Strip(AfterRun(t))]>>
                     ELSE <<>>
         IN  here \o ExpectedHeaders(Tail(lines), maxDepth)

\* C6 (as stated): extractHeaders returns, in document order, one entry for
\* each line whose trimmed content begins with a '#' run of length at most
\* maxDepth, none for a longer run, and every level is in 1..maxDepth.
C6_ExtractsEveryHeaderUpToDepth ==
    hOp = "extract" =>
        /\ hOut = ExpectedHeaders(Split(hIn), hArg)
        /\ \A j \in 1..Len(hOut) : hOut[j].Level \in 1..hArg

\* C7 (as stated): a line whose trimmed content is only a '#' run is a
\* header line, returned with that level and an empty text when the level
\* is at most maxDepth.
C7_EmptyHeaderExtracted ==
    hOp = "extract" =>
        \A i \in 1..Len(Split(hIn)) :
            LET t == Strip(Split(hIn)[i])
            IN  (t # <<>> /\ RunLen(t) = Len(t) /\ Len(t) <= hArg) =>
                    \E j \in 1..Len(hOut) :
                        hOut[j] = [Level |-> Len(t), Text |-> <<>>]

(***************************************************************************)
(* Properties of the directory scan.                                       *)
(***************************************************************************)
\* The name ends in ".md", in any letter case.
EndsInMd(name) ==
    /\ Len(name) >= 3
    /\ name[Len(name) - 2] = "."
    /\ name[Len(name) - 1] \in {"m", "M"}
    /\ name[Len(name)] \in {"d", "D"}

\* The glob is well formed and matches the whole base name.
GlobMatches(name, pattern) == ~BadPattern(pattern) /\ Match(pattern, name)

AcceptedName(sc, name) ==
    /\ EndsInMd(name)
    /\ \/ sc.IncludePatterns = <<>>
       \/ \E i \in 1..Len(sc.IncludePatterns) : GlobMatches(name, sc.IncludePatterns[i])
    /\ ~\E i \in 1..Len(sc.ExcludePatterns) : GlobMatches(name, sc.ExcludePatterns[i])

PathOf(sc, f) == <<sc.Directory>> \o f.dir \o <<f.name>>

Returned(res, sc, f) ==
    \E i \in 1..Len(res.files) :
        res.files[i].Path = PathOf(sc, f) /\ res.files[i].Name = f.name

\* The files of the directories the scan visits.
InScope(sc, f) == sc.Recursive \/ f.dir = <<>>

\* C9: a visited file is returned exactly when its base name ends in .md
\* (any case), matches an include glob or the include list is empty, and
\* matches no exclude glob; a malformed glob matches nothing and is never
\* the cause of an error.
C9_AcceptedIffNameMatches ==
    sOp = "scanned" =>
        /\ (sFs.exists /\ sFs.unreadable = {}) => sRes.err = ""
        /\ sRes.err = "" =>
            \A f \in sFs.files :
                InScope(scanner, f) =>
                    (Returned(sRes, scanner, f) <=> AcceptedName(scanner, f.name))

\* A file matched by an include glob and by an exclude glob is left out,
\* next to a malformed include pattern, and another file is returned.
C9_Witness ==
    /\ sOp = "scanned" /\ sRes.err = "" /\ sRes.files # <<>>
    /\ \E i \in 1..Len(scanner.IncludePatterns) : BadPattern(scanner.IncludePatterns[i])
    /\ \E f \in sFs.files :
        /\ InScope(scanner, f)
        /\ \E i \in 1..Len(scanner.IncludePatterns) :
                GlobMatches(f.name, scanner.IncludePatterns[i])
        /\ \E i \in 1..Len(scanner.ExcludePatterns) :
                GlobMatches(f.name, scanner.ExcludePatterns[i])
        /\ ~Returned(sRes, scanner, f)

ReturnedPaths(res) == {res.files[i].Path : i \in 1..Len(res.files)}

AcceptedPaths(fsys, sc, files) ==
    {PathOf(sc, f) : f \in {g \in files : AcceptedName(sc, g.name)}}

\* C10: without recursion the result is exactly the accepted files directly
\* in the root and holds no file of a subdirectory; with recursion it is
\* that set plus the accepted files of every subdirectory at any depth.
C10_RecursionScope ==
    (sOp = "scanned" /\ sRes.err = "") =>
        LET inRoot == {f \in sFs.files : f.dir = <<>>}
            below == {f \in sFs.files : f.dir # <<>>}
        IN  /\ Len(sRes.files) = Cardinality(ReturnedPaths(sRes))
            /\ ~scanner.Recursive =>
                /\ ReturnedPaths(sRes) = AcceptedPaths(sFs, scanner, inRoot)
                /\ \A i \in 1..Len(sRes.files) : Len(sRes.files[i].Path) = 2
            /\ scanner.Recursive =>
                ReturnedPaths(sRes) = AcceptedPaths(sFs, scanner, inRoot)
                                        \cup AcceptedPaths(sFs, scanner, below)

\* A recursive scan that returns a root file and a file two directories down.
C10_Witness ==
    /\ sOp = "scanned" /\ sRes.err = "" /\ scanner.Recursive
    /\ \E i, j \in 1..Len(sRes.files) :
        Len(sRes.files[i].Path) = 2 /\ Len(sRes.files[j].Path) = 4

\* A scan without recursion of a directory that has accepted files in its
\* subdirectories and in the root.
C10_WitnessFlat ==
    /\ sOp = "scanned" /\ sRes.err = "" /\ ~scanner.Recursive
    /\ sRes.files # <<>>
    /\ \E f \in sFs.files : f.dir # <<>> /\ AcceptedName(scanner, f.name)

(***************************************************************************)
(* Properties of the merged document.                                      *)
(***************************************************************************)
OfKind(kind) == {j \in 1..Len(output) : output[j].kind = kind}

\* The chunks of kind `kind`, in the order written.
RECURSIVE Select(_, _)
Select(chunks, kinds) ==
    IF chunks = <<>> THEN <<>>
    ELSE (IF Head(chunks).kind \in kinds THEN <<Head(chunks)>> ELSE <<>>)
            \o Select(Tail(chunks), kinds)

FirstIndex(s, c) == MinOf({i \in 1..Len(s) : s[i] = c})

\* Number of spaces a TOC line starts with, and the text between its
\* brackets (the header texts of the model hold no bracket).
Indent(line) == MaxOf({k \in 0..Len(line) : \A j \in 1..k : line[j] = " "})

EntryText(line) == SubSeq(line, FirstIndex(line, "[") + 1, FirstIndex(line, "]") - 1)

\* The level a TOC line stands for: two spaces for each level below 2.
EntryLevel(line) == Indent(line) \div 2 + 2

BodyLines ==
    UNION {{Split(output[j].data)[i] : i \in 1..Len(Split(output[j].data))} :
                j \in OfKind("content")}

\* C1 (as stated): in a finished merge with table of contents and header
\* adjustment, every TOC entry has a header line of the body with the same
\* text at level min(6, originalLevel + baseLevel - 1).
C1_TOCEntriesExistInBody ==
    (pc = "done" /\ ~args.MergeDryRun /\ args.MergeGenerateTOC
        /\ args.MergeAdjustHeaders) =>
        \A j \in OfKind("tocEntry") :
            (Hashes(Min6(EntryLevel(output[j].data))) \o <<" ">>
                \o EntryText(output[j].data)) \in BodyLines

\* C4 (as stated): the indentation of a TOC line is clamped at zero, so
\* writeTOC completes for every base level and every header level; no run
\* ends in the panic of strings.Repeat.
C4_WriteTOCCompletes ==
    /\ pc # "panic"
    /\ \A j \in OfKind("tocEntry") : Indent(output[j].data) % 2 = 0

TOCIsOver ==
    /\ args.MergeGenerateTOC
    /\ pc \in {"panic", "merge", "separator", "stat", "done"}

\* <<level, text>> of the entries the claim expects of the files read.
RECURSIVE ExpectedEntries(_)
ExpectedEntries(i) ==
    IF i > Len(sortedFiles) THEN <<>>
    ELSE (IF i \in tocRead
          THEN LET hs == extractHeaders(ReadFile(disk, args.MergeDirectory,
                                                 sortedFiles[i].Path),
                                        args.MergeTOCDepth)
                   keep == SelectSeq(hs, LAMBDA h :
                                h.Level + args.MergeBaseLevel - 1
                                    <= args.MergeTOCDepth + 1)
               IN  [k \in 1..Len(keep) |->
                        <<keep[k].Level + args.MergeBaseLevel - 1, keep[k].Text>>]
          ELSE <<>>)
         \o ExpectedEntries(i + 1)

WrittenEntries ==
    LET es == Select(output, {"tocEntry"})
    IN  [k \in 1..Len(es) |-> <<EntryLevel(es[k].data), EntryText(es[k].data)>>]

\* C5 (as stated): once writeTOC is over, the entries written are those of
\* the extracted headers with level + baseLevel - 1 <= TOCdepth + 1, each
\* of them and no other, for every base level and depth in 1..6.
C5_TOCInclusionRule ==
    TOCIsOver => WrittenEntries = ExpectedEntries(1)

\* The writes of a finished merge without the TOC entries and the newlines
\* that complete a content.
RECURSIVE FileSkeleton(_)
FileSkeleton(i) ==
    IF i > Len(sortedFiles) THEN <<>>
    ELSE (IF args.MergeIncludeMeta THEN <<"source">> ELSE <<>>)
            \o <<"content">>
            \o (IF i < Len(sortedFiles) THEN <<"separator">> ELSE <<>>)
            \o FileSkeleton(i + 1)

Skeleton ==
    <<"title">>
        \o (IF args.MergeIncludeMeta THEN <<"meta">> ELSE <<>>)
        \o (IF args.MergeGenerateTOC THEN <<"tocHeading", "tocEnd">> ELSE <<>>)
        \o FileSkeleton(1)

KindsOf(chunks) == [j \in 1..Len(chunks) |-> chunks[j].kind]

\* C8: the output of a finished merge is the title line and a blank line,
\* the metadata block iff include-metadata, the table of contents iff
\* generate-TOC, then for each file in sorted order the source comment (iff
\* include-metadata) and the content, original or rewritten, ended by a
\* newline; the separator stands between consecutive files only: n - 1
\* separators for n files and none after the last.
C8_OutputLayout ==
    (pc = "done" /\ ~args.MergeDryRun) =>
        LET n == Len(sortedFiles)
            contents == Select(output, {"content"})
            sources == Select(output, {"source"})
        IN  /\ KindsOf(Select(output, {"title", "meta", "tocHeading", "tocEnd",
                                       "source", "content", "separator", "old"}))
                    = Skeleton
            /\ HasPrefix(output[1].data, <<"#", " ">>)
            /\ HasSuffix(output[1].data, <<NL, NL>>)
            /\ \A j \in OfKind("tocHeading") :
                    output[j].data = <<"#", "#", " ", "T", "a", "b", "l", "e", " ",
                                       "o", "f", " ", "C", "o", "n", "t", "e",
                                       "n", "t", "s", NL, NL>>
            /\ \A j \in OfKind("tocEntry") :
                    \E p \in OfKind("tocHeading"), q \in OfKind("tocEnd") : p < j /\ j < q
            /\ \A j \in OfKind("newline") :
                    j > 1 /\ output[j - 1].kind = "content" /\ output[j].data = <<NL>>
            /\ \A j \in OfKind("content") :
                    \/ HasSuffix(output[j].data, <<NL>>)
                    \/ j < Len(output) /\ output[j + 1].kind = "newline"
            /\ Cardinality(OfKind("separator")) = n - 1
            /\ output[Len(output)].kind # "separator"
            /\ \A j \in OfKind("separator") : output[j].data = args.MergeSeparator
            /\ \A i \in 1..n :
                LET c == ReadFile(disk, args.MergeDirectory, sortedFiles[i].Path)
                IN  /\ IF args.MergeAdjustHeaders
                       THEN Len(Split(contents[i].data)) = Len(Split(c))
                            /\ \A l \in 1..Len(Split(c)) :
                                RunLen(Strip(Split(c)[l])) = 0 =>
                                    Split(contents[i].data)[l] = Split(c)[l]
                       ELSE contents[i].data = c
                    /\ args.MergeIncludeMeta =>
                            sources[i].data = <<"<", "!", "-", "-", " ", "S", "o", "u",
                                                "r", "c", "e", ":", " ">>
                                \o JoinWith(Tail(sortedFiles[i].Path), <<"/">>)
                                \o <<" ", "-", "-", ">", NL>>
            /\ \A i, k \in 1..n :
                    i < k => ~LessStr(sortedFiles[k].Name, sortedFiles[i].Name)

\* A finished merge of three files with metadata and table of contents:
\* two separators, the last write is not one.
C8_Witness ==
    /\ pc = "done" /\ ~args.MergeDryRun
    /\ args.MergeIncludeMeta /\ args.MergeGenerateTOC
    /\ Len(sortedFiles) = 3
    /\ Cardinality(OfKind("separator")) = 2
    /\ OfKind("tocEntry") # {}
    /\ OfKind("newline") # {}

(***************************************************************************)
(* Properties of SortMarkdownFiles.                                        *)
(***************************************************************************)
\* a <= b on strings: equal up to some position k, where a ends or has the
\* smaller byte.
StrLeq(a, b) ==
    \E k \in 0..Len(a) :
        /\ k <= Len(b)
        /\ \A j \in 1..k : a[j] = b[j]
        /\ \/ k = Len(a)
           \/ k < Len(b) /\ Ord(a[k + 1]) < Ord(b[k + 1])

KeyLeq(order, a, b) ==
    CASE order = "filename" -> StrLeq(a.Name, b.Name)
      [] order = "modified" -> a.ModTime <= b.ModTime
      [] order = "size" -> a.Size <= b.Size

Occurrences(list, r) == Cardinality({i \in 1..Len(list) : list[i] = r})

IsPermutation(x, y) ==
    /\ Len(x) = Len(y)
    /\ \A i \in 1..Len(x) : Occurrences(x, x[i]) = Occurrences(y, x[i])

\* C11: for the orders filename, modified and size the list returned is a
\* permutation of the list passed in, and each record's key (Name, ModTime,
\* Size) is at most the key of the record after it.
C11_SortedPermutation ==
    (srtOp \in {"sorted", "resorted"} /\ srtOrder \in {"filename", "modified", "size"}) =>
        /\ IsPermutation(srtIn, srtOut)
        /\ \A i \in 1..(Len(srtOut) - 1) : KeyLeq(srtOrder, srtOut[i], srtOut[i + 1])

\* Three records in descending time order come back oldest first.
C11_Witness ==
    /\ srtOp = "sorted" /\ srtOrder = "modified"
    /\ Len(srtIn) = 3
    /\ srtIn[1].ModTime > srtIn[2].ModTime /\ srtIn[2].ModTime > srtIn[3].ModTime
    /\ srtOut = <<srtIn[3], srtIn[2], srtIn[1]>>

\* C12: sorting the sorted list again with the same order returns it
\* unchanged, record by record, also where records have equal keys.
C12_SortIdempotent ==
    srtOp = "resorted" => srtAgain = srtOut

\* Two different records with the same size, out of order with a third.
C12_Witness ==
    /\ srtOp = "resorted" /\ srtOrder = "size"
    /\ Len(srtIn) = 3
    /\ srtIn[1].Size > srtIn[2].Size
    /\ srtIn[2].Size = srtIn[3].Size /\ srtIn[2] # srtIn[3]
    /\ srtAgain = <<srtIn[2], srtIn[3], srtIn[1]>>

(***************************************************************************)
(* Properties of runMerge: dry run and empty scan.                         *)
(***************************************************************************)
\* The scan runMerge makes of the directory.
ScanOfRun ==
    ScanMarkdownFiles(DiskNow(output), [Directory |-> args.MergeDirectory,
                             Recursive |-> args.MergeRecursive,
                             IncludePatterns |-> args.MergeIncludePatterns,
                             ExcludePatterns |-> args.MergeExcludePatterns])

\* The output path is as it was before the run: absent, or holding what
\* the earlier run left there.
OutputUntouched == output = IF outExists THEN OldOutput ELSE <<>>

RECURSIVE SumOfSizes(_, _)
SumOfSizes(list, I) ==
    IF I = {} THEN 0
    ELSE LET i == CHOOSE j \in I : TRUE
         IN  list[i].Size + SumOfSizes(list, I \ {i})

\* C13: in dry-run mode the output path is never created or truncated; a
\* run whose scan found files returns success, and it has then printed one
\* line per file, in sorted order with the indices 1..n, and a total that
\* is the sum of the sizes.
C13_DryRunWritesNothing ==
    args.MergeDryRun =>
        /\ OutputUntouched
        /\ pc = "failed" => (ScanOfRun.err # "" \/ ScanOfRun.files = <<>>)
        /\ pc = "done" =>
            LET n == Len(sortedFiles)
            IN  /\ err = ""
                /\ IsPermutation(ScanOfRun.files, sortedFiles)
                /\ \A i \in 1..(n - 1) : StrLeq(sortedFiles[i].Name, sortedFiles[i + 1].Name)
                /\ Len(stdout) = n + 3
                /\ \A i \in 1..n :
                    /\ stdout[i + 1].line = "file"
                    /\ stdout[i + 1].index = i
                    /\ stdout[i + 1].relPath = JoinWith(Tail(sortedFiles[i].Path), <<"/">>)
                    /\ stdout[i + 1].size = formatFileSize(sortedFiles[i].Size)
                /\ stdout[n + 3].line = "total"
                /\ stdout[n + 3].size = formatFileSize(SumOfSizes(sortedFiles, 1..n))

\* A dry run over three files, with a file of an earlier run at the
\* output path.
C13_Witness ==
    /\ args.MergeDryRun /\ pc = "done"
    /\ Len(sortedFiles) = 3
    /\ outExists /\ output = OldOutput
    /\ stdout[4].index = 3

\* C14: when the scan succeeds with no accepted file, runMerge returns the
\* error "no markdown files found", which is not the error of a failed
\* scan, with the output path untouched and nothing printed, in live and
\* in dry-run mode.
C14_EmptyScanIsAnError ==
    pc # "start" =>
        /\ (ScanOfRun.err = "" /\ ScanOfRun.files = <<>>) =>
                /\ pc = "failed"
                /\ err = "no markdown files found in directory"
                /\ OutputUntouched
                /\ stdout = <<>>
        /\ ScanOfRun.err # "" =>
                /\ pc = "failed"
                /\ err = "failed to scan directory"
                /\ err # "no markdown files found in directory"

\* A live run on a directory that holds only a text file, with an earlier
\* output in place.
C14_Witness ==
    /\ pc = "failed" /\ ~args.MergeDryRun
    /\ disk.exists /\ disk.files # {} /\ ScanOfRun.files = <<>>
    /\ err = "no markdown files found in directory"
    /\ outExists /\ output = OldOutput

\* The same in dry-run mode.
C14_WitnessDry ==
    /\ pc = "failed" /\ args.MergeDryRun
    /\ ScanOfRun.err = "" /\ ScanOfRun.files = <<>>

(***************************************************************************)
(* Properties of mergeFiles when a file cannot be read or written.         *)
(***************************************************************************)
\* C15: a file writeTOC cannot read adds nothing to the output and is no
\* error, writeTOC goes on with the next file; a file mergeFile cannot
\* read makes mergeFiles return the error without writing its content, and
\* nothing runs after the return.
C15_UnreadableFile ==
    [][/\ (pc = "tocfile" /\ idx <= Len(sortedFiles) /\ idx \notin tocRead') =>
            /\ output' = output
            /\ err' = ""
            /\ pc' = "tocfile"
            /\ idx' = idx + 1
       /\ err' = ReadFailed =>
            /\ pc = "merge" /\ pc' = "failed"
            /\ Select(output', {"content"}) = Select(output, {"content"})
       /\ pc # "failed"]_vars

\* writeTOC read neither of two files and finished the table; mergeFile
\* then failed to read the second file.
C15_Witness ==
    /\ args.MergeGenerateTOC /\ Len(sortedFiles) = 2 /\ tocRead = {}
    /\ OfKind("tocEnd") # {}
    /\ idx = 2 /\ pc = "failed" /\ err = ReadFailed

IsPrefix(a, b) == Len(a) <= Len(b) /\ SubSeq(b, 1, Len(a)) = a

\* C16: when mergeFiles has returned the error of a failed read or write
\* at file k, the output file exists and holds the writes made before the
\* failure and no other: the head of the layout of a finished merge, with
\* the files before k complete, k - 1 separators and no content of a file
\* after k.
C16_PartialOutputKept ==
    (pc = "failed" /\ err \in {"failed to merge file", ReadFailed,
                                "failed to write separator"}) =>
        LET contents == Select(output, {"content"})
        IN  /\ outExists
            /\ IsPrefix(KindsOf(Select(output, {"title", "meta", "tocHeading",
                                                      "tocEnd", "source", "content",
                                                      "separator", "old"})),
                        Skeleton)
            /\ pc # "done"
            /\ Len(contents) \in {idx - 1, idx}
            /\ Cardinality(OfKind("separator")) = idx - 1
            /\ err = "failed to write separator" => Len(contents) = idx
            /\ err = ReadFailed => Len(contents) = idx - 1
            /\ \A i \in 1..Len(contents) :
                    LET c == ReadFile(disk, args.MergeDirectory, sortedFiles[i].Path)
                    IN  contents[i].data = IF args.MergeAdjustHeaders
                                           THEN adjustHeaderLevels(c, args.MergeBaseLevel)
                                           ELSE c

\* The content of the second of three files was written and the newline
\* after it failed: two contents, one separator, the file kept.
C16_Witness ==
    /\ pc = "failed" /\ err = "failed to merge file"
    /\ Len(sortedFiles) = 3 /\ idx = 2
    /\ outExists
    /\ output[Len(output)].kind = "content"
    /\ Cardinality(OfKind("content")) = 2

(***************************************************************************)
(* Properties of the command line of the merge command, stated on the      *)
(* positions of the arguments: an argument stands where an option may      *)
(* stand unless it is the value of the value flag before it.               *)
(***************************************************************************)
ValueFlags ==
    {Flag.o, Flag.output, Flag.order, Flag.separator, Flag.tocDepth, Flag.baseLevel,
     Flag.include, Flag.exclude}

KnownFlags ==
    ValueFlags \cup {Flag.r, Flag.recursive, Flag.dryRun, Flag.includeMeta, Flag.noTOC,
                     Flag.adjustHeaders}

RECURSIVE OptionAt(_, _)
OptionAt(a, i) ==
    \/ i = 1
    \/ i >= 2 /\ a[i - 1] \notin ValueFlags /\ OptionAt(a, i - 1)
    \/ i >= 3 /\ a[i - 2] \in ValueFlags /\ OptionAt(a, i - 2)

Dashed(t) == t # <<>> /\ t[1] = "-"

\* t is a decimal integer, with or without sign, that an int holds.
IsInteger(t) ==
    LET from == IF t # <<>> /\ t[1] \in {"+", "-"} THEN 2 ELSE 1
        sig == TrimZeros(SubSeq(t, from, Len(t)))
    IN  /\ from <= Len(t)
        /\ \A j \in from..Len(t) : t[j] \in {"0", "1", "2", "3", "4", "5", "6", "7", "8", "9"}
        /\ \/ Len(sig) < Len(IntCutoff)
           \/ Len(sig) = Len(IntCutoff) /\ LessDigits(sig, IntCutoff)
           \/ sig = IntCutoff /\ t[1] = "-"

\* t is an integer of 1..6: one digit of 1..6 after the sign and the zeros.
InOneToSix(t) ==
    /\ IsInteger(t)
    /\ t[1] # "-"
    /\ t[Len(t)] \in {"1", "2", "3", "4", "5", "6"}
    /\ \A j \in 1..(Len(t) - 1) : t[j] \in {"+", "0"}

\* The arguments after "merge", and whether the command is merge.
IsMergeCommandLine ==
    \/ Len(osArgs) >= 1 /\ osArgs[1] = Command.merge
    \/ Len(osArgs) >= 2 /\ osArgs[1] = Command.v /\ osArgs[2] = Command.merge

ArgsOfMerge ==
    IF osArgs[1] = Command.v THEN SubSeq(osArgs, 3, Len(osArgs)) ELSE Tail(osArgs)

Malformed(a) ==
    \/ \E i \in 1..Len(a) : OptionAt(a, i) /\ Dashed(a[i]) /\ a[i] \notin KnownFlags
    \/ \E i \in 1..(Len(a) - 1) :
            OptionAt(a, i) /\ a[i] = Flag.order
                /\ a[i + 1] \notin {Order.filename, Order.modified, Order.size, Order.custom}
    \/ \E i \in 1..(Len(a) - 1) :
            OptionAt(a, i) /\ a[i] \in {Flag.tocDepth, Flag.baseLevel}
                /\ IsInteger(a[i + 1]) /\ ~InOneToSix(a[i + 1])
    \/ Len(a) >= 1 /\ OptionAt(a, Len(a)) /\ a[Len(a)] \in ValueFlags
    \/ ~\E i \in 1..Len(a) : OptionAt(a, i) /\ ~Dashed(a[i])

\* A depth or level that strconv.Atoi does not take: parseIntOrError ends
\* the process.
NotAnInteger(a) ==
    \E i \in 1..(Len(a) - 1) :
        OptionAt(a, i) /\ a[i] \in {Flag.tocDepth, Flag.baseLevel} /\ ~IsInteger(a[i + 1])

\* C17: a merge command line with an invalid order name, a depth or level
\* outside 1..6, a value flag as last argument, an unknown option or no
\* directory is rejected: parseMergeArgs returns an error and main exits
\* with status 1 having called nothing but parseArgs and showUsage, so
\* nothing was scanned and no file created.  (Where a depth or level that
\* is no integer or too large for an int comes first, parseIntOrError ends
\* the process instead.)
C17_MalformedArgsRejected ==
    (mainPc # "start" /\ IsMergeCommandLine /\ Malformed(ArgsOfMerge)) =>
        /\ mainPc = "exited"
        /\ exitCode = 1
        /\ ran \in {<<"parseArgs", "showUsage">>, <<"parseArgs", "parseIntOrError">>}
        /\ ~NotAnInteger(ArgsOfMerge) =>
                /\ parseErr # ""
                /\ ran = <<"parseArgs", "showUsage">>

\* "doc -v merge docs --order name" was rejected for its order.
C17_Witness ==
    /\ osArgs = <<Command.v, Command.merge, TokDocs, Flag.order, TokName>>
    /\ mainPc = "exited" /\ exitCode = 1
    /\ parseErr = "invalid order"

ParsedOk == Len(ran) >= 1 /\ (Len(ran) >= 2 => ran[2] \notin {"showUsage", "parseIntOrError"})

\* C18 (as stated): for a merge command line that parses, main calls
\* runMerge and never creates a provider, validates a language or reads
\* stdin; the process exits with status 0 or 1 as runMerge succeeds or
\* fails.
C18_MainRunsTheMerge ==
    (IsMergeCommandLine /\ ParsedOk) =>
        /\ \A k \in 1..Len(ran) :
                ran[k] \notin {"NewLLMProvider", "validateLanguageCodeWithMap",
                               "readDocument"}
        /\ mainPc = "exited" => \E k \in 1..Len(ran) : ran[k] = "runMerge"

(***************************************************************************)
(* Properties of the report of mergeFiles.                                 *)
(***************************************************************************)
\* C19 (as stated): when a live run has returned success, the last line
\* written to the user is the completion message with the output path and
\* the size of the output file, on a terminal and off it.
C19_FinalReport ==
    (pc = "done" /\ ~args.MergeDryRun) =>
        /\ spinnerLog # <<>>
        /\ LET last == spinnerLog[Len(spinnerLog)].message
           IN  /\ last.text = "Merge completed"
               /\ last.path = args.MergeOutputFile
               /\ last.size = formatFileSize(SizeOf(Bytes(output)))

\* The same where stderr is a terminal.
C19_ReportOnTerminal == terminal => C19_FinalReport

(***************************************************************************)
(* Properties of the header rewrite applied twice.                         *)
(***************************************************************************)
\* C20: with base level 1 the second rewrite returns what the first
\* returned, for every content; with a base level b > 1 the second rewrite
\* counts the '#' run the first one wrote, so a line that began with a run
\* of L >= 1 '#' ends with min(6, L + 2 * (b - 1)), and that is not what
\* the first rewrite returned whenever L + b - 1 < 6.
C20_RewriteTwice ==
    hOp = "adjusted twice" =>
        LET in == Split(hIn)
            out == Split(hOut)
            again == Split(hAgain)
        IN  /\ hArg = 1 => hAgain = hOut
            /\ hArg > 1 =>
                /\ Len(again) = Len(in)
                /\ \A i \in 1..Len(in) :
                    RunLen(in[i]) >= 1 =>
                        /\ RunLen(again[i]) = Min6(RunLen(in[i]) + 2 * (hArg - 1))
                        /\ RunLen(in[i]) + hArg - 1 < 6 => again[i] # out[i]

\* "# a" rewritten twice with base level 2: "## a", then "### a".
C20_Witness ==
    /\ hOp = "adjusted twice" /\ hArg = 2
    /\ hIn = <<"#", " ", "a">>
    /\ hOut = <<"#", "#", " ", "a">>
    /\ hAgain = <<"#", "#", "#", " ", "a">>

\* With base level 1 a header without its space gets it once and for all.
C20_WitnessBaseOne ==
    /\ hOp = "adjusted twice" /\ hArg = 1
    /\ hIn # hOut /\ hAgain = hOut

(***************************************************************************)
(* Properties of the text functions.                                       *)
(***************************************************************************)
SlugChars == {"-"} \cup {LowerCase[i] : i \in 1..Len(LowerCase)}
                  \cup {Digits[i] : i \in 1..Len(Digits)}

\* What one character of a header text contributes to the slug.
SlugOfChar(c) ==
    IF c = " " \/ c = "-" THEN <<"-">>
    ELSE IF ToLowerChar(c) \in SlugChars THEN <<ToLowerChar(c)>>
    ELSE <<>>

RECURSIVE SlugOf(_)
SlugOf(text) ==
    IF text = <<>> THEN <<>> ELSE SlugOfChar(Head(text)) \o SlugOf(Tail(text))

\* C21: the anchor of a header text is the text lower-cased, each space and
\* each hyphen turned into one hyphen, a-z and 0-9 kept and every other
\* character dropped; it holds only characters of [a-z0-9-], and the anchor
\* of an anchor is that anchor.  The anchor is a function of the text alone,
\* so equal texts get equal anchors.
C21_SlugDerivation ==
    /\ tOp \in {"link", "linked twice"} =>
        /\ tOut = SlugOf(tIn)
        /\ \A i \in 1..Len(tOut) : tOut[i] \in SlugChars
    /\ tOp = "linked twice" => tAgain = tOut

\* A text of a space, a capital, a character outside ASCII and one more
\* dropped character: the anchor is "-b", and so is the anchor of "-b".
C21_Witness ==
    /\ tOp = "linked twice"
    /\ Len(tIn) = MaxText
    /\ \E i, j, k \in 1..Len(tIn) : tIn[i] = " " /\ tIn[j] = "B" /\ tIn[k] = Kana
    /\ tOut = <<"-", "b">>
    /\ tAgain = tOut

\* The last element of a path without its extension.
Stem(path) == TrimExt(Base(path))

\* The title the output path is meant to give.
ExpectedTitle(path) ==
    IF Stem(path) = <<"m", "e", "r", "g", "e", "d">>
    THEN <<"D", "o", "c", "u", "m", "e", "n", "t">>
    ELSE LET spaced == [i \in 1..Len(Stem(path)) |->
                           IF Stem(path)[i] \in {"_", "-"} THEN " " ELSE Stem(path)[i]]
             words == Fields(spaced)
         IN  JoinWith([i \in 1..Len(words) |-> TitleWordByRune(words[i])], <<" ">>)

IsASCII(text) == \A i \in 1..Len(text) : Utf8Width(text[i]) = 1

\* C22: generateDocumentTitle ignores the directories and the extension of
\* the output path, returns "Document" for the base name "merged", and
\* otherwise the base name with '_' and '-' turned into spaces, split into
\* words, each word with its first letter upper-cased and the rest
\* lower-cased, joined by single spaces.
C22_TitleDerivation ==
    tOp = "title" => tOut = ExpectedTitle(tIn)

\* The same for the output paths written in ASCII only.
C22_TitleOfASCIIPath ==
    tOp = "title" /\ IsASCII(tIn) => tOut = ExpectedTitle(tIn)

\* A word that begins with a character of several bytes comes out with
\* that character replaced by one U+FFFD per byte.
C22_FirstCharacterCut ==
    /\ tOp = "title"
    /\ tIn = <<Kana, "a", ".", "a">>
    /\ tOut = <<RuneError, RuneError, RuneError, "a">>

(***************************************************************************)
(* Properties of the sort: the orders that fall back to the name.          *)
(***************************************************************************)
\* C23: for "custom" and for every order that is not filename, modified or
\* size, SortMarkdownFiles returns the list it returns for "filename",
\* ascending by Name; nothing but the list and the order is read.
C23_FallbackToFilename ==
    (srtOp \in {"sorted", "resorted"} /\ srtOrder \notin {"filename", "modified", "size"}) =>
        /\ srtOut = SortMarkdownFiles(srtIn, "filename")
        /\ IsPermutation(srtIn, srtOut)
        /\ \A i \in 1..(Len(srtOut) - 1) : StrLeq(srtOut[i].Name, srtOut[i + 1].Name)

\* "custom" on records whose names, times and sizes give three different
\* orders: the names decide.
C23_Witness ==
    /\ srtOp = "sorted" /\ srtOrder = "custom"
    /\ Len(srtIn) = 3
    /\ srtOut # srtIn
    /\ srtOut # SortMarkdownFiles(srtIn, "modified")
    /\ srtOut # SortMarkdownFiles(srtIn, "size")
    /\ srtOut = SortMarkdownFiles(srtIn, "filename")

\* An order that is not one of the four words.
C23_WitnessUnrecognised ==
    /\ srtOp = "sorted" /\ srtOrder = "date"
    /\ Len(srtIn) = 3
    /\ srtOut # srtIn
    /\ srtOut # SortMarkdownFiles(srtIn, "modified")

(***************************************************************************)
(* Properties of the command line: the documented way to switch the        *)
(* header adjustment off.                                                  *)
(***************************************************************************)
Without(a, t) == SelectSeq(a, LAMBDA x : x # t)

\* C24: a merge command line that is well formed but for
\* "--adjust-headers=false", written where an option may stand, is accepted
\* and gives a request with MergeAdjustHeaders = FALSE.
C24_AdjustHeadersFalseAccepted ==
    (/\ mainPc # "start"
     /\ IsMergeCommandLine
     /\ \E i \in 1..Len(ArgsOfMerge) : ArgsOfMerge[i] = TokAdjustHeadersFalse
     /\ \A i \in 1..Len(ArgsOfMerge) :
            ArgsOfMerge[i] = TokAdjustHeadersFalse => OptionAt(ArgsOfMerge, i)
     /\ ~Malformed(Without(ArgsOfMerge, TokAdjustHeadersFalse))
     /\ ~NotAnInteger(Without(ArgsOfMerge, TokAdjustHeadersFalse))) =>
        /\ parseErr = ""
        /\ cliArgs # NilArgs
        /\ cliArgs.MergeAdjustHeaders = FALSE

\* No request that parseArgs returns has the adjustment switched off.
C24_AdjustmentAlwaysOn ==
    (cliArgs # NilArgs /\ cliArgs.IsMergeCommand) => cliArgs.MergeAdjustHeaders

\* "doc merge docs --adjust-headers=false" is rejected as an unknown option.
C24_RejectedAsUnknown ==
    /\ osArgs = <<Command.merge, TokDocs, TokAdjustHeadersFalse>>
    /\ mainPc = "exited" /\ exitCode = 1
    /\ parseErr = "unknown merge option"

(***************************************************************************)
(* Properties of the configuration.                                        *)
(***************************************************************************)
\* The value the first KEY=VALUE line of .env for a variable gives it.
DotEnvValue(name) ==
    IF kDotEnv.exists THEN Getenv(ScanEnvLines(kDotEnv.lines, <<>>), name) ELSE <<>>

\* The config file as the process found it, and the config file as it is
\* now: the file at the config path of the environment then and now.
FileAtStart == ConfigAt(kFiles0, GetConfigPath(kEnv0))
FileNow == ConfigAt(kFiles, GetConfigPath(kEnv))

FileValue(f) == IF FileAtStart \in {NoFile, CorruptFile} THEN <<>> ELSE FileAtStart[f]

\* The value of a key in the config file as it is now.
SavedValue(f) == IF FileNow \in {NoFile, CorruptFile} THEN <<>> ELSE FileNow[f]

\* C25: Load resolves every setting with the priority environment
\* variable, config file, .env file, default: a value of the config file
\* wins over a value that only .env has, and a variable of the environment
\* wins over both.
C25_LoadPriority ==
    kOp = "loaded" =>
        \A f \in StringFields :
            kCfg[f] = IF Getenv(kEnv0, EnvName[f]) # <<>> THEN Getenv(kEnv0, EnvName[f])
                      ELSE IF FileValue(f) # <<>> THEN FileValue(f)
                      ELSE IF DotEnvValue(EnvName[f]) # <<>> THEN DotEnvValue(EnvName[f])
                      ELSE DefaultConfig[f]

\* The priority Load has: environment variable, .env file, config file,
\* default.
C25_DotEnvBeforeFile ==
    kOp = "loaded" =>
        \A f \in StringFields :
            kCfg[f] = IF Getenv(kEnv0, EnvName[f]) # <<>> THEN Getenv(kEnv0, EnvName[f])
                      ELSE IF DotEnvValue(EnvName[f]) # <<>> THEN DotEnvValue(EnvName[f])
                      ELSE IF FileValue(f) # <<>> THEN FileValue(f)
                      ELSE DefaultConfig[f]

\* provider = "openai" in the config file, LLM_PROVIDER=claude-code in .env
\* and no such variable in the environment: Load returns claude-code.
C25_DotEnvWins ==
    /\ kOp = "loaded"
    /\ FileValue("ProviderType") = <<"o", "p", "e", "n", "a", "i">>
    /\ Getenv(kEnv0, EnvName.ProviderType) = <<>>
    /\ kCfg.ProviderType = <<"c", "l", "a", "u", "d", "e", "-", "c", "o", "d", "e">>

\* The key a key=value argument names: what stands before the first '='.
KeyOfPair(pair) ==
    LET eqs == {i \in 1..Len(pair) : pair[i] = "="}
    IN  IF eqs = {} THEN pair
        ELSE Strip(SubSeq(pair, 1, (CHOOSE i \in eqs : \A j \in eqs : i <= j) - 1))

NamedFields ==
    {f \in StringFields : \E i \in 1..Len(kPairs) : KeyOfPair(kPairs[i]) = TomlKey[f]}

WellFormedPairs ==
    \A i \in 1..Len(kPairs) :
        /\ \E j \in 1..Len(kPairs[i]) : kPairs[i][j] = "="
        /\ \E f \in StringFields : KeyOfPair(kPairs[i]) = TomlKey[f]

\* C29: "doc --set" changes in the config file only the keys it names:
\* every other key keeps the value the file had (a key the file did not
\* have may get its default, never a value of the environment or of .env),
\* and a malformed pair or an unknown key leaves the file as it was.
C29_SetChangesNamedKeysOnly ==
    kOp = "set" =>
        /\ kFiles # kFiles0 =>
            /\ \A f \in StringFields \ NamedFields :
                    SavedValue(f) = IF FileValue(f) # <<>> THEN FileValue(f)
                                    ELSE DefaultConfig[f]
            /\ FileNow \notin {NoFile, CorruptFile}
            /\ FileNow.Verbose = (FileAtStart # NoFile /\ FileAtStart.Verbose)
        /\ ~WellFormedPairs => kFiles = kFiles0

\* A malformed pair, an unknown key or a provider that does not exist ends
\* the process with status 1 before anything is saved.
C29_RejectedPairsSaveNothing ==
    (kOp = "set" /\ ApplyPairs(Load(kFiles0, kDotEnv, kEnv0).config, kPairs).err # "") =>
        kFiles = kFiles0 /\ kExit = 1

\* "doc --set openai_model=m" with OPENAI_API_KEY set in the environment
\* only: the key of the environment is in the file afterwards.
C29_EnvironmentSaved ==
    /\ kOp = "set" /\ kExit = 0
    /\ kPairs = <<<<"o", "p", "e", "n", "a", "i", "_", "m", "o", "d", "e", "l", "=", "m">>>>
    /\ FileValue("OpenAIAPIKey") = <<>>
    /\ FileNow.OpenAIAPIKey = <<"k", "-", "e", "n", "v">>
    /\ Getenv(kEnv0, EnvName.OpenAIAPIKey) = <<"k", "-", "e", "n", "v">>

(***************************************************************************)
(* Properties of the merge whose output file lies in the merged directory. *)
(***************************************************************************)
\* The output path as the scan would report it.
OutputAsInput ==
    IF OutputPlace(args).inside
    THEN <<args.MergeDirectory>> \o OutputPlace(args).dir \o <<OutputPlace(args).name>>
    ELSE <<>>

\* C26: the output file is never one of its own inputs: no file of the
\* list that is merged is the output file, and the command run a second
\* time on the unchanged directory writes the document the first run wrote.
C26_OutputIsNoInput ==
    /\ \A i \in 1..Len(sortedFiles) : sortedFiles[i].Path # OutputAsInput
    /\ (run = 2 /\ pc = "done" /\ ~args.MergeDryRun) => output = firstOutput

\* The second run of "doc merge docs -o docs/merged.md" has the document
\* of the first run among its files and has written it into the new one.
C26_OutputMergedIntoItself ==
    /\ run = 2 /\ pc = "done" /\ ~args.MergeDryRun
    /\ \E i \in 1..Len(sortedFiles) : sortedFiles[i].Path = OutputAsInput
    /\ Len(output) > Len(firstOutput)

\* With the output file outside the directory the scan never returns it.
C26_OutsideIsNoInput ==
    \A i \in 1..Len(sortedFiles) : sortedFiles[i].Path # OutputAsInput

(***************************************************************************)
(* Properties of the spinners.                                             *)
(***************************************************************************)
Calls(f) == {k \in 1..Len(ran) : ran[k] = f}

\* C27: at most one spinner goroutine runs at any moment, also between the
\* calls of one step, and none runs any more once mergeFiles has returned,
\* with or without an error, or once performTranslation has returned and
\* main has ended, whichever way provider.Translate went.
C27_OneSpinnerAtATime ==
    /\ spinning \in {0, 1}
    /\ peak <= 1
    /\ pc \in {"done", "failed"} => spinning = 0
    /\ mainPc = "exited" => spinning = 0

\* The spinner of performTranslation runs on a terminal while
\* provider.Translate is under way.
C27_WitnessTranslating ==
    /\ mainPc = "translating" /\ terminal /\ spinning = 1 /\ peak = 1

\* performTranslation has returned an error on a terminal: its spinner ran
\* and runs no more.
C27_WitnessTranslationFailed ==
    /\ mainPc = "exited" /\ exitCode = 1 /\ Calls("Translate") # {}
    /\ terminal /\ peak = 1 /\ spinning = 0

\* Three spinners, one after the other, of a merge of two files on a
\* terminal: "Merging files" and one "Processing files" for each file.
C27_Witness ==
    /\ terminal /\ pc = "done" /\ ~args.MergeDryRun
    /\ Len(sortedFiles) = 2
    /\ peak = 1 /\ spinning = 0

\* An error path: the separator could not be written.
C27_WitnessError ==
    /\ terminal /\ pc = "failed" /\ err = "failed to write separator"
    /\ peak = 1 /\ spinning = 0

\* The spinner runs while the files are merged.
C27_WitnessRunning ==
    /\ terminal /\ pc = "separator" /\ spinning = 1

(***************************************************************************)
(* Properties of the translation path of main.                             *)
(***************************************************************************)
DocumentRead ==
    /\ stdin.read /\ ~stdin.isTerminal
    /\ TrimSpace(Join(stdin.lines)) # <<>>

\* C28: provider.Translate is invoked at most once, and only after the
\* provider was created, the target language was found among the
\* provider's supported languages and a document that is not empty was
\* read from stdin, in this order; when the provider cannot be created,
\* the language code is unsupported, or stdin is a terminal or holds only
\* whitespace, the process has exited with status 1 and Translate was
\* never invoked.
C28_TranslateOnceAfterChecks ==
    /\ Cardinality(Calls("Translate")) <= 1
    /\ \A t \in Calls("Translate") :
          /\ \E p, v, d \in 1..t :
                /\ p < v /\ v < d /\ d < t
                /\ ran[p] = "NewLLMProvider"
                /\ ran[v] = "validateLanguageCodeWithMap"
                /\ ran[d] = "readDocument"
          /\ Calls("showProviderHelp") = {}
          /\ validateLanguageCodeWithMap(cliArgs.TargetLanguage, supportedLanguages)
          /\ DocumentRead
    /\ (\/ Calls("showProviderHelp") # {}
        \/ /\ Calls("validateLanguageCodeWithMap") # {}
           /\ ~validateLanguageCodeWithMap(cliArgs.TargetLanguage, supportedLanguages)
        \/ stdin.read /\ (stdin.isTerminal \/ TrimSpace(Join(stdin.lines)) = <<>>))
       => /\ mainPc = "exited" /\ exitCode = 1
          /\ Calls("Translate") = {}

\* A document of three lines was translated and main returned.
C28_Witness ==
    /\ mainPc = "exited" /\ exitCode = 0
    /\ Calls("Translate") # {}
    /\ Len(stdin.lines) = 3

\* Standard input held blanks only: exit 1 after readDocument.
C28_WitnessBlank ==
    /\ mainPc = "exited" /\ exitCode = 1
    /\ stdin.read /\ ~stdin.isTerminal /\ ~stdin.scanErr
    /\ Len(stdin.lines) = 2
    /\ ran[Len(ran)] = "readDocument"

\* The language code is not one the provider supports.
C28_WitnessLanguage ==
    /\ mainPc = "exited" /\ exitCode = 1
    /\ ran # <<>> /\ ran[Len(ran)] = "validateLanguageCodeWithMap"

(***************************************************************************)
(* Properties of MaskAPIKey.                                               *)
(***************************************************************************)
Stars == <<"*", "*", "*">>

\* The number of bytes of the key that a mask shows: those around its dots.
Shown(mask) == IF mask = Stars THEN 0 ELSE Len(mask) - 3

\* C30 (as stated): the mask of a key that is not empty shows nothing of a
\* key shorter than 8 bytes and otherwise its first 4 and last 4 bytes only,
\* which are strictly fewer bytes than the key has, so that the key cannot
\* be read off the mask.
C30_MaskHidesPartOfKey ==
    (tOp = "mask" /\ tIn # <<>>) =>
        LET key == Utf8(tIn)
        IN  /\ Len(key) < MaskMinLen => tOut = Stars
            /\ Len(key) >= MaskMinLen =>
                  tOut = SubSeq(key, 1, MaskShown) \o <<".", ".", ".">>
                           \o SubSeq(key, Len(key) - MaskShown + 1, Len(key))
            /\ Shown(tOut) < Len(key)

\* What does hold: part of every key of another length than 8 is hidden.
C30_OtherLengthsHidden ==
    (tOp = "mask" /\ tIn # <<>> /\ Len(Utf8(tIn)) # MaskMinLen) =>
        Shown(tOut) < Len(Utf8(tIn))

\* A key of 8 bytes is shown whole.
C30_WholeKeyShown ==
    /\ tOp = "mask"
    /\ tIn = <<"a", "b", "c", "d", "e", "f", "g", "h">>
    /\ tOut = <<"a", "b", "c", "d", ".", ".", ".", "e", "f", "g", "h">>

====
